---- MODULE Spec2Model ----
(***************************************************************************)
(* Model of adaptix's BuiltinInputExtractionGen                            *)
(* (src/adaptix/_internal/provider/model/input_extraction_gen.py).         *)
(*                                                                         *)
(* The generator walks a crown tree and emits a flat Python procedure.     *)
(* The model has two layers:                                               *)
(*   - code generation: GenState and the _gen_* methods, as operators that *)
(*     thread the GenState record and append instructions to its builder;  *)
(*   - the emitted procedure: one instruction per emitted statement block, *)
(*     executed one instruction per step on a frame of local variables.    *)
(***************************************************************************)
EXTENDS Integers, Sequences, FiniteSets, TLC

VARIABLES
    cfg,      \* arguments of BuiltinInputExtractionGen.__init__ (immutable)
    gen,      \* GenState left behind by the last __call__
    procs,    \* the procedures compiled so far (builders returned by __call__)
    phase,    \* "idle" | "running" | "done"
    inp,      \* raw input value of the current invocation
    frame     \* local variables of the running invocation

vars == <<cfg, gen, procs, phase, inp, frame>>

-----------------------------------------------------------------------------
(* Bounds *)

MaxCompiles == 2       \* how many times __call__ is run on one generator
MaxExtraKeys == 1      \* undeclared keys added to a mapping of the input
MaxExtraItems == 1     \* trailing items added to a sequence of the input

-----------------------------------------------------------------------------
(* Python values.  Every value is a record whose first field is its kind,  *)
(* so values of different kinds compare unequal.                           *)

IntV(n) == [kind |-> "int", val |-> n]
StrV(cs) == [kind |-> "str", val |-> cs]          \* cs: sequence of characters
DictV(f) == [kind |-> "dict", val |-> f]          \* f: function key object -> value
ListV(s) == [kind |-> "list", val |-> s]
NoneV == [kind |-> "none", val |-> 0]
EmptyFcn == [k \in {} |-> NoneV]
EmptyDict == DictV(EmptyFcn)

\* a dict key k (a one-character string) seen as a Python str object
KeyV(k) == StrV(<<k>>)

DictSet(f, k, v) == [x \in DOMAIN f \cup {k} |-> IF x = k THEN v ELSE f[x]]

SeqRange(s) == {s[i] : i \in 1..Len(s)}

\* path elements: a str key of a dict crown or an int index of a list crown
Key(k) == [t |-> "key", v |-> k]
Idx(i) == [t |-> "idx", v |-> i]
IsStrElem(el) == el.t = "key"

\* outcome of evaluating a Python expression
Ok(v) == [ok |-> TRUE, val |-> v]
Exc(name) == [ok |-> FALSE, exc |-> name]

\* an unassigned local variable is absent from the frame's mapping
Lookup(env, name) ==
    IF name \in DOMAIN env THEN Ok(env[name]) ELSE Exc("UnboundLocalError")

\* the Python object a path element stands for
ElemV(el) == IF IsStrElem(el) THEN KeyV(el.v) ELSE IntV(el.v)

\* data[key] for a key object
GetItemV(data, key) ==
    CASE data.kind = "dict" ->
           IF key \in DOMAIN data.val THEN Ok(data.val[key]) ELSE Exc("KeyError")
      [] data.kind \in {"list", "str"} ->
           IF key.kind # "int" THEN Exc("TypeError")
           ELSE LET n == Len(data.val)
                    i == IF key.val < 0 THEN key.val + n + 1 ELSE key.val + 1
                IN  IF i \in 1..n
                    THEN Ok(IF data.kind = "str" THEN StrV(<<data.val[i]>>) ELSE data.val[i])
                    ELSE Exc("IndexError")
      [] OTHER -> Exc("TypeError")

\* data[el]
GetItem(data, el) == GetItemV(data, ElemV(el))

\* container[key] = v
SetItemV(container, key, v) ==
    CASE container.kind = "dict" -> Ok(DictV(DictSet(container.val, key, v)))
      [] container.kind = "list" ->
           IF key.kind # "int" THEN Exc("TypeError")
           ELSE LET n == Len(container.val)
                    i == IF key.val < 0 THEN key.val + n + 1 ELSE key.val + 1
                IN  IF i \in 1..n
                    THEN Ok(ListV([container.val EXCEPT ![i] = v]))
                    ELSE Exc("IndexError")
      [] OTHER -> Exc("TypeError")

\* len(data)
PyLen(data) ==
    CASE data.kind = "dict" -> Ok(Cardinality(DOMAIN data.val))
      [] data.kind \in {"list", "str"} -> Ok(Len(data.val))
      [] OTHER -> Exc("TypeError")

IsHashable(v) == v.kind \in {"int", "str", "none"}

\* set(data): the keys of a mapping, the items of a sequence
PySet(data) ==
    CASE data.kind = "dict" -> Ok(DOMAIN data.val)
      [] data.kind = "str" -> Ok({StrV(<<data.val[i]>>) : i \in 1..Len(data.val)})
      [] data.kind = "list" ->
           IF \A i \in 1..Len(data.val) : IsHashable(data.val[i])
           THEN Ok(SeqRange(data.val)) ELSE Exc("TypeError")
      [] OTHER -> Exc("TypeError")

\* isinstance(data, collections.abc.Mapping)
IsMapping(data) == data.kind = "dict"
\* isinstance(data, collections.abc.Sequence)
IsSequence(data) == data.kind \in {"list", "str"}

-----------------------------------------------------------------------------
(* Crown model (crown_definitions, not under src/: plain data).            *)

FieldCrown(id) == [kind |-> "field", id |-> id]
NoneCrown == [kind |-> "none"]
\* keys and subs are parallel sequences: the ordered mapping key -> child
DictCrown(keys, subs, policy) ==
    [kind |-> "dict", keys |-> keys, subs |-> subs, extra_policy |-> policy]
ListCrown(subs, policy) ==
    [kind |-> "list", subs |-> subs, extra_policy |-> policy]

ExtraPolicies == {"forbid", "collect", "ignore"}
DebugTrails == {"NONE", "FIRST", "ALL"}

NoExtraMove == [kind |-> "none", fields |-> <<>>]
ExtraTargets(ids) == [kind |-> "targets", fields |-> ids]

-----------------------------------------------------------------------------
(* Errors and error expressions of the emitted code.                       *)

\* an exception object: its class, its payload and its struct trail
Error(kind, payload) == [kind |-> kind, payload |-> payload, trail |-> <<>>]

\* the text of an error expression: a constructor call, or the name 'e' of
\* the exception being handled; wrap/trail_arg is the trail call around it
ErrorExpr(ctor, payload) ==
    [ctor |-> ctor, payload |-> payload, wrap |-> "none", trail_arg |-> <<>>]
CaughtExpr == ErrorExpr("e", 0)

\* a with_trail that forgets the path (faulty variant)
WithTrail_NoTrail(debug_trail, error_expr, path) == error_expr

\* a with_trail that attaches only the last element of a longer path
\* (faulty variant)
WithTrail_LastOnly(debug_trail, error_expr, path) ==
    IF debug_trail \in {"FIRST", "ALL"} /\ Len(path) > 0
    THEN [error_expr EXCEPT !.wrap = "append_trail", !.trail_arg = <<path[Len(path)]>>]
    ELSE error_expr

\* GenState.with_trail
WithTrail(debug_trail, error_expr, path) ==
    IF debug_trail \in {"FIRST", "ALL"}
    THEN IF Len(path) = 0 THEN error_expr
         ELSE IF Len(path) = 1
              THEN [error_expr EXCEPT !.wrap = "append_trail", !.trail_arg = <<path[1]>>]
              ELSE [error_expr EXCEPT !.wrap = "extend_trail", !.trail_arg = path]
    ELSE error_expr

\* the exception object an error expression evaluates to; caught is the
\* exception bound to 'e', extra_set the local computed by the Forbid check.
\* append_trail / extend_trail put their elements in front of the object's
\* trail and return the object.
EvalErrorExpr(expr, caught, extra_set) ==
    LET base == CASE expr.ctor = "e" -> caught
                  [] expr.ctor = "ExtraFieldsError" -> Error("ExtraFieldsError", extra_set)
                  [] OTHER -> Error(expr.ctor, expr.payload)
    IN  IF expr.wrap = "none" THEN base
        ELSE [base EXCEPT !.trail = expr.trail_arg \o base.trail]

-----------------------------------------------------------------------------
(* GenState                                                                *)

\* GenState.__init__
NewGenState(debug_trail, root_crown) ==
    [ builder |-> <<>>,
      debug_trail |-> debug_trail,
      field_id_to_path |-> EmptyFcn,
      path_to_suffix |-> EmptyFcn,
      last_path_idx |-> 0,
      path |-> <<>>,
      has_parent_path |-> FALSE,
      parent_path |-> <<>>,
      crown_stack |-> <<root_crown>>,
      checked_type_paths |-> {},
      known_keys |-> EmptyFcn,
      raised |-> "" ]

\* GenState._get_path_idx: the state after the call (a new path gets the
\* next index)
GetPathIdx(st, path) ==
    IF path \in DOMAIN st.path_to_suffix THEN st
    ELSE [st EXCEPT !.last_path_idx = st.last_path_idx + 1,
                    !.path_to_suffix = DictSet(st.path_to_suffix, path, st.last_path_idx + 1)]

\* GenState._with_path_suffix: the state after the call
WithPathSuffix(st, path) == IF Len(path) = 0 THEN st ELSE GetPathIdx(st, path)

\* the suffix _with_path_suffix returns for a path; 0 stands for the bare
\* basis name (root)
SuffixOf(st, path) == IF Len(path) = 0 THEN 0 ELSE WithPathSuffix(st, path).path_to_suffix[path]

Emit(st, instr) == [st EXCEPT !.builder = Append(st.builder, instr)]

\* GenState.parent_crown
ParentCrown(st) == st.crown_stack[Len(st.crown_stack) - 1]

\* GenState.add_key: entering the region
AddKeyEnter(st, crown, key) ==
    [st EXCEPT !.has_parent_path = TRUE,
               !.parent_path = st.path,
               !.path = Append(st.path, key),
               !.crown_stack = Append(st.crown_stack, crown)]

\* GenState.add_key: leaving the region; past is the state at entry
AddKeyExit(st, past) ==
    [st EXCEPT !.crown_stack = SubSeq(st.crown_stack, 1, Len(st.crown_stack) - 1),
               !.path = past.path,
               !.has_parent_path = past.has_parent_path,
               !.parent_path = past.parent_path]

\* GenState.get_field: the state after the call
GetField(st, crown) ==
    [st EXCEPT !.field_id_to_path = DictSet(st.field_id_to_path, crown.id, st.path)]

\* an emit_error that raises at once in every mode (faulty variant)
EmitError_AlwaysRaise(st, error_expr) ==
    [act |-> "raise", expr |-> WithTrail(st.debug_trail, error_expr, st.path)]

\* GenState.emit_error
EmitError(st, error_expr) ==
    IF st.debug_trail = "ALL"
    THEN [act |-> "append", expr |-> WithTrail(st.debug_trail, error_expr, st.path)]
    ELSE [act |-> "raise", expr |-> WithTrail(st.debug_trail, error_expr, st.path)]

PassHandler == [act |-> "pass", expr |-> CaughtExpr]

\* an emit_error_for_from_data_assigment that lets every absent element
\* pass (faulty variant)
EmitErrorForFromDataAssigment_Pass(st, error_expr) == PassHandler

\* a variant that locates a failed read at the child instead of the node
\* that was read
EmitErrorForFromDataAssigment_OwnPath(st, error_expr) ==
    IF st.debug_trail = "ALL"
    THEN IF IsStrElem(st.path[Len(st.path)])
         THEN [act |-> "append", expr |-> WithTrail(st.debug_trail, error_expr, st.path)]
         ELSE PassHandler
    ELSE [act |-> "raise", expr |-> WithTrail(st.debug_trail, error_expr, st.path)]

\* GenState.emit_error_for_from_data_assigment
EmitErrorForFromDataAssigment(st, error_expr) ==
    IF st.debug_trail = "ALL"
    THEN IF IsStrElem(st.path[Len(st.path)])
         THEN [act |-> "append", expr |-> WithTrail(st.debug_trail, error_expr, st.parent_path)]
         ELSE PassHandler
    ELSE [act |-> "raise", expr |-> WithTrail(st.debug_trail, error_expr, st.parent_path)]

-----------------------------------------------------------------------------
(* BuiltinInputExtractionGen: code generation.  self is the generator      *)
(* object: crown, extra_move, debug_trail, strict_coercion, fields         *)
(* (id -> [is_required]) and field_loaders (id -> "as_is" | "conv").       *)

\* names of local variables of the emitted procedure
DataVar(idx) == [basis |-> "data", idx |-> idx, id |-> ""]
RawVar(id) == [basis |-> "raw", idx |-> 0, id |-> id]

\* BuiltinInputExtractionGen._can_collect_extra
CanCollectExtra(self) == self.extra_move.kind # "none"

\* BuiltinInputExtractionGen._is_extra_target
IsExtraTarget(self, id) ==
    self.extra_move.kind = "targets" /\ id \in SeqRange(self.extra_move.fields)

\* a _create_state that goes on with the GenState of the previous __call__,
\* only its builder renewed (faulty variant)
CreateState_Reuse(self, prev) == [prev EXCEPT !.builder = <<>>]

\* BuiltinInputExtractionGen._create_state; prev is the GenState of the
\* previous __call__, which the method does not look at
CreateState(self, prev) == NewGenState(self.debug_trail, self.crown)

\* suffix of the variables of the current path (v_data, v_extra, v_known_keys)
Me(st) == SuffixOf(st, st.path)

\* the try statement emitted by _gen_assigment_from_parent_data
ReadInstr(self, st, assign_to, ignore_lookup_error) ==
    LET last_path_el == st.path[Len(st.path)]
        is_str == IsStrElem(last_path_el)
    IN  [ op |-> "read",
          assign_to |-> assign_to,
          parent |-> SuffixOf(st, st.parent_path),
          el |-> last_path_el,
          lookup_error |-> IF is_str THEN "KeyError" ELSE "IndexError",
          on_lookup_error |->
              IF ignore_lookup_error THEN PassHandler
              ELSE EmitErrorForFromDataAssigment(st,
                       IF is_str THEN ErrorExpr("NoRequiredFieldsError", <<last_path_el.v>>)
                       ELSE ErrorExpr("NoRequiredItemsError", Len(ParentCrown(st).subs))),
          has_bad_type |-> st.parent_path \notin st.checked_type_paths,
          bad_type_error |->
              IF is_str THEN {"TypeError", "IndexError"} ELSE {"TypeError", "KeyError"},
          on_bad_type |->
              [act |-> "raise",
               expr |-> WithTrail(st.debug_trail,
                                  IF is_str THEN ErrorExpr("TypeLoadError", "dict")
                                  ELSE ErrorExpr("TypeLoadError", "list"),
                                  st.parent_path)],
          on_exception |->
              CASE self.debug_trail = "FIRST" ->
                     [act |-> "trail_reraise", expr |-> WithTrail(st.debug_trail, CaughtExpr, st.path)]
                [] self.debug_trail = "ALL" ->
                     [act |-> "append_unexpected", expr |-> WithTrail(st.debug_trail, CaughtExpr, st.path)]
                [] OTHER -> [act |-> "none", expr |-> CaughtExpr],
          else_ |-> <<>> ]

\* a variant that never records the parent path (faulty variant)
EmitRead_NoMemo(self, st, assign_to, ignore_lookup_error) ==
    Emit(st, ReadInstr(self, st, assign_to, ignore_lookup_error))

\* the parent path joins checked_type_paths once its handler is emitted
EmitRead(self, st, assign_to, ignore_lookup_error) ==
    [Emit(st, ReadInstr(self, st, assign_to, ignore_lookup_error))
        EXCEPT !.checked_type_paths = st.checked_type_paths \cup {st.parent_path}]

\* BuiltinInputExtractionGen._gen_assigment_from_parent_data
GenAssigmentFromParentData(self, st, assign_to, ignore_lookup_error) ==
    EmitRead(self, WithPathSuffix(st, st.parent_path), assign_to, ignore_lookup_error)

EmitAddSelfExtra(st) ==
    Emit(st, [ op |-> "add_extra_to_parent",
               parent |-> SuffixOf(st, st.parent_path),
               el |-> st.path[Len(st.path)],
               extra |-> Me(st) ])

\* BuiltinInputExtractionGen._gen_add_self_extra_to_parent_extra
GenAddSelfExtraToParentExtra(self, st) ==
    IF Len(st.path) = 0 THEN st
    ELSE EmitAddSelfExtra(WithPathSuffix(WithPathSuffix(st, st.parent_path), st.path))

\* a _gen_field_assigment that takes every loader for as_is_stub and so
\* stores the raw value (faulty variant)
GenFieldAssigment_SkipsLoader(self, st, to_opt, field_id, loader_arg) ==
    Emit(st, [ op |-> "load",
               field_id |-> field_id,
               to_opt |-> to_opt,
               as_is |-> TRUE,
               loader_arg |-> loader_arg,
               guarded |-> self.debug_trail \in {"ALL", "FIRST"},
               on_exception |-> EmitError(st, CaughtExpr) ])

\* a _gen_field_assigment that passes over a loader failure of an optional
\* field (faulty variant)
GenFieldAssigment_OptSwallows(self, st, to_opt, field_id, loader_arg) ==
    IF field_id \notin DOMAIN self.field_loaders
    THEN [st EXCEPT !.raised = "KeyError"]
    ELSE Emit(st, [ op |-> "load",
                    field_id |-> field_id,
                    to_opt |-> to_opt,
                    as_is |-> self.field_loaders[field_id] = "as_is",
                    loader_arg |-> loader_arg,
                    guarded |-> to_opt \/ self.debug_trail \in {"ALL", "FIRST"},
                    on_exception |-> IF to_opt THEN PassHandler
                                     ELSE EmitError(st, CaughtExpr) ])

\* BuiltinInputExtractionGen._gen_field_assigment; loader_arg names the
\* argument: a raw-field variable, an extra holder or the literal {}
GenFieldAssigment(self, st, to_opt, field_id, loader_arg) ==
    IF field_id \notin DOMAIN self.field_loaders
    THEN [st EXCEPT !.raised = "KeyError"]
    ELSE Emit(st, [ op |-> "load",
                    field_id |-> field_id,
                    to_opt |-> to_opt,
                    as_is |-> self.field_loaders[field_id] = "as_is",
                    loader_arg |-> loader_arg,
                    guarded |-> self.debug_trail \in {"ALL", "FIRST"},
                    on_exception |-> EmitError(st, CaughtExpr) ])

\* with state.builder('else:'): the statement emitted last becomes the
\* else: block of the try statement emitted before it
IntoElse(st) ==
    IF st.raised # "" THEN st
    ELSE [st EXCEPT !.builder =
             SubSeq(st.builder, 1, Len(st.builder) - 2)
             \o <<[st.builder[Len(st.builder) - 1] EXCEPT
                      !.else_ = <<st.builder[Len(st.builder)]>>]>>]

\* a variant that treats a missing key or index of a required field as
\* that of an optional one
GenFieldCrown_IgnoresMissing(self, st, crown) ==
    IntoElse(
        GenFieldAssigment(
            self,
            GenAssigmentFromParentData(self, GetField(st, crown), RawVar(crown.id), TRUE),
            ~self.fields[crown.id].is_required,
            crown.id,
            [src |-> "raw", idx |-> 0, id |-> crown.id]))

\* BuiltinInputExtractionGen._gen_field_crown
GenFieldCrown(self, st, crown) ==
    IntoElse(
        GenFieldAssigment(
            self,
            GenAssigmentFromParentData(self, GetField(st, crown), RawVar(crown.id),
                                       ~self.fields[crown.id].is_required),
            ~self.fields[crown.id].is_required,
            crown.id,
            [src |-> "raw", idx |-> 0, id |-> crown.id]))

\* a _gen_none_crown that reads its position as a required one (faulty
\* variant)
GenNoneCrown_Reads(self, st, crown) ==
    GenAssigmentFromParentData(self, st, RawVar("none"), FALSE)

\* BuiltinInputExtractionGen._gen_none_crown
GenNoneCrown(self, st, crown) == st

RECURSIVE GenDictCrown(_, _, _)
RECURSIVE GenListCrown(_, _, _)

\* BuiltinInputExtractionGen._gen_root_crown_dispatch: whether code is
\* generated for this kind of crown
IsBranchCrown(crown) == crown.kind \in {"dict", "list"}
GenRootCrownDispatch(self, st, crown) ==
    CASE crown.kind = "dict" -> GenDictCrown(self, st, crown)
      [] crown.kind = "list" -> GenListCrown(self, st, crown)
      [] OTHER -> st

\* the body of the add_key region of _gen_crown_dispatch
DispatchInside(self, st, sub_crown) ==
    CASE IsBranchCrown(sub_crown) -> GenRootCrownDispatch(self, st, sub_crown)
      [] sub_crown.kind = "field" -> GenFieldCrown(self, st, sub_crown)
      [] sub_crown.kind = "none" -> GenNoneCrown(self, st, sub_crown)
      [] OTHER -> [st EXCEPT !.raised = "TypeError"]

\* An exception inside the add_key region leaves through the yield: the
\* lines after it do not run.
AddKeyLeave(inside, past) ==
    IF inside.raised # "" THEN inside ELSE AddKeyExit(inside, past)

\* BuiltinInputExtractionGen._gen_crown_dispatch
GenCrownDispatch(self, st, sub_crown, key) ==
    AddKeyLeave(DispatchInside(self, AddKeyEnter(st, sub_crown, key), sub_crown), st)

\* the loop "for key, value in ...: self._gen_crown_dispatch(state, value, key)"
\* of _gen_dict_crown and _gen_list_crown, from child i on
RECURSIVE GenChildren(_, _, _, _)

\* a loop that emits the code of the children last child first (faulty
\* variant)
RECURSIVE GenChildren_LastFirst(_, _, _, _)
GenChildren_LastFirst(self, st, crown, i) ==
    IF i > Len(crown.subs) \/ st.raised # "" THEN st
    ELSE IF GenChildren_LastFirst(self, st, crown, i + 1).raised # ""
         THEN GenChildren_LastFirst(self, st, crown, i + 1)
         ELSE GenCrownDispatch(self, GenChildren_LastFirst(self, st, crown, i + 1), crown.subs[i],
                               IF crown.kind = "dict" THEN Key(crown.keys[i]) ELSE Idx(i - 1))

GenChildren(self, st, crown, i) ==
    IF i > Len(crown.subs) \/ st.raised # "" THEN st
    ELSE GenChildren(self,
                     GenCrownDispatch(self, st, crown.subs[i],
                                      IF crown.kind = "dict" THEN Key(crown.keys[i]) ELSE Idx(i - 1)),
                     crown, i + 1)

\* "if state.path: self._gen_assigment_from_parent_data(state, assign_to=state.v_data)"
GenReadSelf(self, st) ==
    IF Len(st.path) > 0
    THEN GenAssigmentFromParentData(self, WithPathSuffix(st, st.path), DataVar(Me(st)), FALSE)
    ELSE st

\* "if self._can_collect_extra: state.builder(f'{state.v_extra} = ...')"
GenInitExtra(self, st, literal) ==
    IF CanCollectExtra(self)
    THEN Emit(WithPathSuffix(st, st.path), [op |-> "init_extra", extra |-> Me(st), literal |-> literal])
    ELSE st

\* "if not crown.map:" of _gen_dict_crown and of _gen_list_crown
GenEmptyMapCheck(st, crown) ==
    IF Len(crown.subs) = 0
    THEN Emit(WithPathSuffix(st, st.path),
              [ op |-> IF crown.kind = "dict" THEN "check_mapping" ELSE "check_sequence",
                data |-> Me(st),
                on_fail |-> [act |-> "raise",
                             expr |-> WithTrail(st.debug_trail,
                                                IF crown.kind = "dict"
                                                THEN ErrorExpr("TypeLoadError", "dict")
                                                ELSE ErrorExpr("TypeLoadError", "list"),
                                                st.path)] ])
    ELSE st

\* "state.ctx_namespace.add(state.v_known_keys, set(crown.map.keys()))"
GenKnownKeys(st, crown) ==
    IF crown.extra_policy \in {"forbid", "collect"}
    THEN [WithPathSuffix(st, st.path) EXCEPT !.known_keys =
             DictSet(st.known_keys, Me(st), {KeyV(k) : k \in SeqRange(crown.keys)})]
    ELSE st

\* the Forbid check or the Collect loop of _gen_dict_crown
GenDictExtraPolicy(st, crown) ==
    CASE crown.extra_policy = "forbid" ->
           Emit(WithPathSuffix(st, st.path),
                [ op |-> "forbid_extra", data |-> Me(st), known_keys |-> Me(st),
                  on_extra |-> EmitError(st, ErrorExpr("ExtraFieldsError", 0)) ])
      [] crown.extra_policy = "collect" ->
           Emit(WithPathSuffix(st, st.path),
                [ op |-> "collect_extra", data |-> Me(st), known_keys |-> Me(st),
                  extra |-> Me(st) ])
      [] OTHER -> WithPathSuffix(st, st.path)

\* "if self._can_collect_extra: self._gen_add_self_extra_to_parent_extra(state)"
GenAddSelfExtra(self, st) ==
    IF CanCollectExtra(self) THEN GenAddSelfExtraToParentExtra(self, st) ELSE st

\* _gen_dict_crown after the loop over the children
GenDictCrownTail(self, st, crown) ==
    IF st.raised # "" THEN st
    ELSE GenAddSelfExtra(self,
             GenDictExtraPolicy(GenKnownKeys(GenEmptyMapCheck(st, crown), crown), crown))

\* BuiltinInputExtractionGen._gen_dict_crown
GenDictCrown(self, st, crown) ==
    GenDictCrownTail(self,
        GenChildren(self, GenInitExtra(self, GenReadSelf(self, st), EmptyDict), crown, 1),
        crown)

\* the list literal of _gen_list_crown: {} for a leaf child, None for a branch
ListLiteral(crown) ==
    ListV([i \in 1..Len(crown.subs) |->
              IF crown.subs[i].kind \in {"field", "none"} THEN EmptyDict ELSE NoneV])

\* a _gen_list_crown without the check for str (faulty variant)
GenStrictCheck_Off(self, st) == st

\* "if self._strict_coercion:" of _gen_list_crown
GenStrictCheck(self, st) ==
    IF self.strict_coercion
    THEN Emit(WithPathSuffix(st, st.path),
              [ op |-> "check_not_str", data |-> Me(st),
                on_fail |-> [act |-> "raise",
                             expr |-> WithTrail(st.debug_trail,
                                                ErrorExpr("TypeLoadError", "list"), st.path)] ])
    ELSE st

\* the length check of _gen_list_crown
GenLenCheck(st, crown) ==
    Emit(WithPathSuffix(st, st.path),
         [ op |-> "check_len", data |-> Me(st), list_len |-> Len(crown.subs),
           forbid |-> crown.extra_policy = "forbid",
           on_short |-> EmitError(st, ErrorExpr("NoRequiredItemsError", Len(crown.subs))),
           on_long |-> EmitError(st, ErrorExpr("ExtraItemsError", Len(crown.subs))) ])

\* _gen_list_crown after the loop over the children
GenListCrownTail(self, st, crown) ==
    IF st.raised # "" THEN st
    ELSE GenAddSelfExtra(self, GenLenCheck(GenEmptyMapCheck(st, crown), crown))

\* BuiltinInputExtractionGen._gen_list_crown
GenListCrown(self, st, crown) ==
    GenListCrownTail(self,
        GenChildren(self,
                    GenInitExtra(self, GenStrictCheck(self, GenReadSelf(self, st)),
                                 ListLiteral(crown)),
                    crown, 1),
        crown)

\* a variant that hands the root's extra holder to every target, collected
\* or not
GenTarget_AlwaysExtra(self, st, target, collected) ==
    GenFieldAssigment(self, st, FALSE, target, [src |-> "extra", idx |-> Me(st), id |-> ""])

\* one target of the loops "for target in extra_move.fields"
GenTarget(self, st, target, collected) ==
    IF collected
    THEN GenFieldAssigment(self, st, FALSE, target,
                           [src |-> "extra", idx |-> Me(st), id |-> ""])
    ELSE IF self.fields[target].is_required
         THEN GenFieldAssigment(self, st, FALSE, target, [src |-> "empty", idx |-> 0, id |-> ""])
         ELSE st

RECURSIVE GenTargets(_, _, _, _)
GenTargets(self, st, i, collected) ==
    IF i > Len(self.extra_move.fields) \/ st.raised # "" THEN st
    ELSE GenTargets(self, GenTarget(self, st, self.extra_move.fields[i], collected),
                    i + 1, collected)

\* BuiltinInputExtractionGen._gen_extra_targets_assigment
GenExtraTargetsAssigment(self, st) ==
    IF self.extra_move.kind # "targets" \/ st.raised # "" THEN st
    ELSE GenTargets(self, st, 1, self.crown.extra_policy = "collect")

\* "if self._debug_trail == DebugTrail.ALL:" at the start of __call__
GenInitErrors(self, st) ==
    IF self.debug_trail = "ALL" THEN Emit(st, [op |-> "init_errors"]) ELSE st

\* "if has_optional_fields:" of __call__
GenInitOptFields(self, st) ==
    IF \E id \in DOMAIN self.fields : ~self.fields[id].is_required /\ ~IsExtraTarget(self, id)
    THEN Emit(st, [op |-> "init_opt_fields"])
    ELSE st

\* "if not self._gen_root_crown_dispatch(state, crown): raise TypeError"
GenRoot(self, st) ==
    IF IsBranchCrown(self.crown) THEN GenRootCrownDispatch(self, st, self.crown)
    ELSE [st EXCEPT !.raised = "TypeError"]

\* "if self._debug_trail == DebugTrail.ALL:" at the end of __call__
GenRaiseGroup(self, st) ==
    IF st.raised = "" /\ self.debug_trail = "ALL" THEN Emit(st, [op |-> "raise_group"]) ELSE st

\* BuiltinInputExtractionGen.__call__: the GenState at return; its builder
\* is the emitted procedure.  raised # "" when __call__ raises instead.
Call(self, prev) ==
    GenRaiseGroup(self,
        GenExtraTargetsAssigment(self,
            GenRoot(self,
                GenInitOptFields(self, GenInitErrors(self, CreateState(self, prev))))))

-----------------------------------------------------------------------------
(* Field loaders.  A loader is an opaque function of the raw value that may *)
(* fail: "conv" loaders reject BadRaw and convert every other value;        *)
(* as_is_stub returns its argument.                                         *)

BadRaw == IntV(0)
Loaded(field_id, v) == [kind |-> "loaded", val |-> [by |-> field_id, raw |-> v]]
LoaderResult(field_id, v) ==
    IF v = BadRaw THEN [ok |-> FALSE, exc |-> Error("LoadError", field_id)]
    ELSE Ok(Loaded(field_id, v))

-----------------------------------------------------------------------------
(* The emitted procedure at run time.                                      *)

NoError == Error("", 0)

\* the local variables of one invocation, before the first statement
NewFrame(data) ==
    [ pc |-> 1,
      in_else |-> FALSE,
      status |-> "running",          \* "running" | "returned" | "raised"
      exc |-> NoError,               \* the exception, when status = "raised"
      data |-> [i \in {0} |-> data], \* data, data_1, data_2, ...
      extra |-> EmptyFcn,            \* extra, extra_1, ...
      raw |-> EmptyFcn,              \* r_<field id>
      fields |-> EmptyFcn,           \* the variables binder.field(field)
      opt_fields |-> EmptyFcn,       \* the dict binder.opt_fields
      errors |-> <<>>,
      has_unexpected_error |-> FALSE,
      calls |-> <<>>,                \* loader calls made: <<field id, argument>>
      reads |-> <<>> ]               \* subscriptions made: <<parent suffix, element>>

Raise(fr, e) == [fr EXCEPT !.status = "raised", !.exc = e]
Advance(fr) == [fr EXCEPT !.pc = fr.pc + 1, !.in_else = FALSE]

\* what an except clause (or an emitted error statement) does; caught is
\* the exception being handled, extra_set the local of the Forbid check
Handle(fr, handler, caught, extra_set) ==
    LET e == EvalErrorExpr(handler.expr, caught, extra_set)
    IN  CASE handler.act = "pass" -> Advance(fr)
          [] handler.act = "raise" -> Raise(fr, e)
          [] handler.act = "trail_reraise" -> Raise(fr, e)
          [] handler.act = "append" ->
               Advance([fr EXCEPT !.errors = Append(fr.errors, e)])
          [] handler.act = "append_unexpected" ->
               Advance([fr EXCEPT !.errors = Append(fr.errors, e),
                                  !.has_unexpected_error = TRUE])
          [] OTHER -> Raise(fr, caught)

\* try: <assign_to> = <parent data>[<el>] / except ... (the else: block is
\* entered on success and runs as the next step)
ExecRead(instr, fr0) ==
    LET fr == [fr0 EXCEPT !.reads = Append(fr0.reads, <<instr.parent, instr.el>>)]
        parent == Lookup(fr.data, instr.parent)
        got == IF parent.ok THEN GetItem(parent.val, instr.el) ELSE parent
    IN  IF got.ok
        THEN LET bound ==
                     IF instr.assign_to.basis = "raw"
                     THEN [fr EXCEPT !.raw = DictSet(fr.raw, instr.assign_to.id, got.val)]
                     ELSE [fr EXCEPT !.data = DictSet(fr.data, instr.assign_to.idx, got.val)]
             IN  IF Len(instr.else_) > 0 THEN [bound EXCEPT !.in_else = TRUE]
                 ELSE Advance(bound)
        ELSE LET caught == Error(got.exc, 0)
             IN  CASE got.exc = instr.lookup_error ->
                        Handle(fr, instr.on_lookup_error, caught, {})
                   [] got.exc # instr.lookup_error /\ instr.has_bad_type
                        /\ got.exc \in instr.bad_type_error ->
                        Handle(fr, instr.on_bad_type, caught, {})
                   [] OTHER -> Handle(fr, instr.on_exception, caught, {})

\* <field> = <loader>(<loader_arg>), inside try/except when guarded
ExecLoad(instr, fr) ==
    LET arg == CASE instr.loader_arg.src = "raw" -> Lookup(fr.raw, instr.loader_arg.id)
                 [] instr.loader_arg.src = "extra" -> Lookup(fr.extra, instr.loader_arg.idx)
                 [] OTHER -> Ok(EmptyDict)
        called == IF arg.ok /\ ~instr.as_is
                  THEN [fr EXCEPT !.calls = Append(fr.calls, <<instr.field_id, arg.val>>)]
                  ELSE fr
        res == IF ~arg.ok THEN [ok |-> FALSE, exc |-> Error(arg.exc, 0)]
               ELSE IF instr.as_is THEN arg
               ELSE LoaderResult(instr.field_id, arg.val)
    IN  IF res.ok
        THEN Advance(IF instr.to_opt
                     THEN [called EXCEPT !.opt_fields = DictSet(called.opt_fields, instr.field_id, res.val)]
                     ELSE [called EXCEPT !.fields = DictSet(called.fields, instr.field_id, res.val)])
        ELSE IF instr.guarded THEN Handle(called, instr.on_exception, res.exc, {})
             ELSE Raise(called, res.exc)

\* if not isinstance(data, CollectionsMapping): raise ...
ExecCheckMapping(instr, fr) ==
    LET data == Lookup(fr.data, instr.data)
    IN  IF ~data.ok THEN Raise(fr, Error(data.exc, 0))
        ELSE IF ~IsMapping(data.val) THEN Handle(fr, instr.on_fail, NoError, {})
        ELSE Advance(fr)

\* if not isinstance(data, CollectionsSequence): raise ...
ExecCheckSequence(instr, fr) ==
    LET data == Lookup(fr.data, instr.data)
    IN  IF ~data.ok THEN Raise(fr, Error(data.exc, 0))
        ELSE IF ~IsSequence(data.val) THEN Handle(fr, instr.on_fail, NoError, {})
        ELSE Advance(fr)

\* if type(data) is str: raise ...
ExecCheckNotStr(instr, fr) ==
    LET data == Lookup(fr.data, instr.data)
    IN  IF ~data.ok THEN Raise(fr, Error(data.exc, 0))
        ELSE IF data.val.kind = "str" THEN Handle(fr, instr.on_fail, NoError, {})
        ELSE Advance(fr)

\* extra = {} / extra = [<list literal>]
ExecInitExtra(instr, fr) ==
    Advance([fr EXCEPT !.extra = DictSet(fr.extra, instr.extra, instr.literal)])

\* set(data) - known_keys
ExtraSet(fr, known_keys, instr) ==
    LET data == Lookup(fr.data, instr.data)
        keys == IF data.ok THEN PySet(data.val) ELSE data
    IN  IF keys.ok THEN Ok(keys.val \ known_keys[instr.known_keys]) ELSE keys

\* extra_set = set(data) - known_keys / if extra_set: <error>
ExecForbidExtra(known_keys, instr, fr) ==
    LET extra_set == ExtraSet(fr, known_keys, instr)
    IN  IF ~extra_set.ok THEN Raise(fr, Error(extra_set.exc, 0))
        ELSE IF extra_set.val # {} THEN Handle(fr, instr.on_extra, NoError, extra_set.val)
        ELSE Advance(fr)

\* for key in set(data) - known_keys: extra[key] = data[key].  When extra
\* is unbound here the procedure assigns it nowhere (no generator collects
\* extra), so the name is looked up as a global: NameError.  The right-hand
\* side data[key] is evaluated before the target.
ExecCollectExtra(known_keys, instr, fr) ==
    LET extra_set == ExtraSet(fr, known_keys, instr)
        extra == Lookup(fr.extra, instr.extra)
    IN  IF ~extra_set.ok THEN Raise(fr, Error(extra_set.exc, 0))
        ELSE IF extra_set.val = {} THEN Advance(fr)
        ELSE LET data == fr.data[instr.data]
                 failing == {k \in extra_set.val : ~GetItemV(data, k).ok}
             IN  IF failing # {}
                 THEN Raise(fr, Error(GetItemV(data, CHOOSE k \in failing : TRUE).exc, 0))
                 ELSE IF ~extra.ok THEN Raise(fr, Error("NameError", 0))
                 ELSE Advance([fr EXCEPT !.extra = DictSet(fr.extra, instr.extra,
                          DictV([k \in DOMAIN extra.val.val \cup extra_set.val |->
                                    IF k \in extra_set.val THEN GetItemV(data, k).val
                                    ELSE extra.val.val[k]]))])

\* parent_extra[<el>] = extra.  The holder is complete when it is inserted
\* (nothing is stored into it afterwards), so it is inserted by value.
ExecAddExtraToParent(instr, fr) ==
    LET parent == Lookup(fr.extra, instr.parent)
        extra == Lookup(fr.extra, instr.extra)
        stored == IF parent.ok /\ extra.ok
                  THEN SetItemV(parent.val, ElemV(instr.el), extra.val)
                  ELSE IF parent.ok THEN extra ELSE parent
    IN  IF ~stored.ok THEN Raise(fr, Error(stored.exc, 0))
        ELSE Advance([fr EXCEPT !.extra = DictSet(fr.extra, instr.parent, stored.val)])

\* the length check that closes a list crown
ExecCheckLen(instr, fr) ==
    LET data == Lookup(fr.data, instr.data)
        len == IF data.ok THEN PyLen(data.val) ELSE data
    IN  IF ~len.ok THEN Raise(fr, Error(len.exc, 0))
        ELSE IF instr.forbid
             THEN IF len.val # instr.list_len
                  THEN IF len.val < instr.list_len
                       THEN Handle(fr, instr.on_short, NoError, {})
                       ELSE Handle(fr, instr.on_long, NoError, {})
                  ELSE Advance(fr)
             ELSE IF len.val < instr.list_len
                  THEN Handle(fr, instr.on_short, NoError, {})
                  ELSE Advance(fr)

\* errors = [] / has_unexpected_error = False
ExecInitErrors(instr, fr) ==
    Advance([fr EXCEPT !.errors = <<>>, !.has_unexpected_error = FALSE])

\* opt_fields = {}
ExecInitOptFields(instr, fr) == Advance([fr EXCEPT !.opt_fields = EmptyFcn])

\* if errors: raise CompatExceptionGroup(...) or LoadExceptionGroup(...)
ExecRaiseGroup(instr, fr) ==
    IF Len(fr.errors) > 0
    THEN IF fr.has_unexpected_error
         THEN Raise(fr, Error("CompatExceptionGroup", fr.errors))
         ELSE Raise(fr, Error("LoadExceptionGroup", fr.errors))
    ELSE Advance(fr)

\* one statement of the procedure
ExecInstr(proc, instr, fr) ==
    CASE instr.op = "read" -> ExecRead(instr, fr)
      [] instr.op = "load" -> ExecLoad(instr, fr)
      [] instr.op = "check_mapping" -> ExecCheckMapping(instr, fr)
      [] instr.op = "check_sequence" -> ExecCheckSequence(instr, fr)
      [] instr.op = "check_not_str" -> ExecCheckNotStr(instr, fr)
      [] instr.op = "init_extra" -> ExecInitExtra(instr, fr)
      [] instr.op = "forbid_extra" -> ExecForbidExtra(proc.known_keys, instr, fr)
      [] instr.op = "collect_extra" -> ExecCollectExtra(proc.known_keys, instr, fr)
      [] instr.op = "add_extra_to_parent" -> ExecAddExtraToParent(instr, fr)
      [] instr.op = "check_len" -> ExecCheckLen(instr, fr)
      [] instr.op = "init_errors" -> ExecInitErrors(instr, fr)
      [] instr.op = "init_opt_fields" -> ExecInitOptFields(instr, fr)
      [] instr.op = "raise_group" -> ExecRaiseGroup(instr, fr)

\* the statement the frame is at: the else: block of the read it has just
\* completed, or the statement at pc
CurrentInstr(proc, fr) ==
    IF fr.in_else THEN proc.code[fr.pc].else_[1] ELSE proc.code[fr.pc]

AtEnd(proc, fr) == fr.pc > Len(proc.code)

\* the procedure run to completion on one frame
RECURSIVE RunFrom(_, _)
RunFrom(proc, fr) ==
    IF fr.status # "running" THEN fr
    ELSE IF AtEnd(proc, fr) THEN [fr EXCEPT !.status = "returned"]
    ELSE RunFrom(proc, ExecInstr(proc, CurrentInstr(proc, fr), fr))

\* what the caller of the procedure observes
Outcome(fr) ==
    [ status |-> fr.status,
      exc |-> fr.exc,
      fields |-> IF fr.status = "returned" THEN fr.fields ELSE EmptyFcn,
      opt_fields |-> IF fr.status = "returned" THEN fr.opt_fields ELSE EmptyFcn ]

-----------------------------------------------------------------------------
(* The generators and inputs explored.                                     *)

\* root and nested extra policies p, q
CrownA(p, q) ==
    DictCrown(<<"x", "y">>,
              <<FieldCrown("f1"), DictCrown(<<"z">>, <<FieldCrown("f2")>>, q)>>, p)
CrownB(p, q) ==
    DictCrown(<<"y">>, <<ListCrown(<<FieldCrown("f2"), NoneCrown>>, q)>>, p)
CrownC(p) == ListCrown(<<FieldCrown("f1"), NoneCrown, FieldCrown("f2")>>, p)
CrownD(p, q) ==
    ListCrown(<<DictCrown(<<"z">>, <<FieldCrown("f1")>>, q), FieldCrown("f2")>>, p)
CrownE(p, q) == DictCrown(<<"x", "y">>, <<NoneCrown, ListCrown(<<>>, q)>>, p)
CrownF(p, q) == DictCrown(<<"z">>, <<DictCrown(<<>>, <<>>, q)>>, p)
CrownG(p) == DictCrown(<<>>, <<>>, p)
CrownH(p) == ListCrown(<<>>, p)
CrownI(p) == DictCrown(<<"x">>, <<NoneCrown>>, p)

Crowns ==
    {CrownA(p, q) : p \in ExtraPolicies, q \in ExtraPolicies}
    \cup {CrownB(p, q) : p \in ExtraPolicies, q \in ExtraPolicies}
    \cup {CrownC(p) : p \in ExtraPolicies}
    \cup {CrownD(p, q) : p \in ExtraPolicies, q \in ExtraPolicies}
    \cup {CrownE(p, q) : p \in ExtraPolicies, q \in ExtraPolicies}
    \cup {CrownF(p, q) : p \in ExtraPolicies, q \in ExtraPolicies}
    \cup {CrownG(p) : p \in ExtraPolicies}
    \cup {CrownH(p) : p \in ExtraPolicies}
    \cup {CrownI(p) : p \in ExtraPolicies}

\* whether a list crown occurs in the tree (strict_coercion only matters then)
RECURSIVE HasListCrown(_)
HasListCrown(crown) ==
    CASE crown.kind = "list" -> TRUE
      [] crown.kind = "dict" -> \E i \in 1..Len(crown.subs) : HasListCrown(crown.subs[i])
      [] OTHER -> FALSE

\* ids of the fields a crown refers to, in depth-first declared order
RECURSIVE CrownFields(_)
RECURSIVE CrownFieldsFrom(_, _)
CrownFieldsFrom(crown, i) ==
    IF i > Len(crown.subs) THEN <<>>
    ELSE CrownFields(crown.subs[i]) \o CrownFieldsFrom(crown, i + 1)
CrownFields(crown) ==
    CASE crown.kind = "field" -> <<crown.id>>
      [] crown.kind = "none" -> <<>>
      [] OTHER -> CrownFieldsFrom(crown, 1)

\* is_required of f1 and f2
RequiredFlags == {<<TRUE, TRUE>>, <<FALSE, FALSE>>}

\* extra_move and is_required of the extra target fx
ExtraMoves == {<<NoExtraMove, TRUE>>, <<ExtraTargets(<<"fx">>), TRUE>>,
               <<ExtraTargets(<<"fx">>), FALSE>>}

FieldIds(c, em) == SeqRange(CrownFields(c)) \cup SeqRange(em[1].fields)

\* every field has a loader, or the loader of one field (ml) is left out of
\* field_loaders.
GeneratorsWith(c, em) ==
    { [ crown |-> c,
        extra_move |-> em[1],
        debug_trail |-> dt,
        strict_coercion |-> sc,
        fields |-> [id \in FieldIds(c, em) |->
                       [is_required |-> CASE id = "f1" -> rq[1]
                                          [] id = "f2" -> rq[2]
                                          [] OTHER -> em[2]]],
        field_loaders |-> [id \in FieldIds(c, em) \ {ml} |-> "conv"] ] :
      dt \in DebugTrails, ml \in {"-"} \cup FieldIds(c, em),
      sc \in {b \in BOOLEAN : HasListCrown(c) \/ ~b},
      rq \in {r \in RequiredFlags : Len(CrownFields(c)) > 0 \/ r = <<TRUE, TRUE>>} }

GeneratorsOf(c) == UNION {GeneratorsWith(c, em) : em \in ExtraMoves}

Generators == UNION {GeneratorsOf(c) : c \in Crowns}

\* raw values at the position of a field, of a skipped position, and values
\* that are no mapping / no list
GoodRaw(id) == IF id = "f1" THEN IntV(1) ELSE IntV(2)
RawValues(id) == {GoodRaw(id), BadRaw}
TextV == StrV(<<"a", "b">>)
NonMappings == {IntV(1), TextV, ListV(<<>>)}
NonLists == {IntV(1), TextV, EmptyDict}
UndeclaredKeys == <<"w", "v", "u">>

RECURSIVE ValuesFor(_)
\* mappings over any subset of the first i declared keys
RECURSIVE DictCombos(_, _)
DictCombos(crown, i) ==
    IF i = 0 THEN {EmptyFcn}
    ELSE LET prev == DictCombos(crown, i - 1)
         IN  prev \cup {DictSet(g, KeyV(crown.keys[i]), v) :
                            g \in prev, v \in ValuesFor(crown.subs[i])}
\* f with the first j undeclared keys added
RECURSIVE WithUndeclared(_, _)
WithUndeclared(f, j) ==
    IF j = 0 THEN f
    ELSE DictSet(WithUndeclared(f, j - 1), KeyV(UndeclaredKeys[j]), IntV(1))
\* sequences of exactly i items for the first i declared children
RECURSIVE ListCombos(_, _)
ListCombos(crown, i) ==
    IF i = 0 THEN {<<>>}
    ELSE {Append(s, v) : s \in ListCombos(crown, i - 1), v \in ValuesFor(crown.subs[i])}
\* s with j trailing items
RECURSIVE WithTrailing(_, _)
WithTrailing(s, j) == IF j = 0 THEN s ELSE Append(WithTrailing(s, j - 1), IntV(1))

\* the values tried at the position of a crown
ValuesFor(crown) ==
    CASE crown.kind = "field" -> RawValues(crown.id)
      [] crown.kind = "none" -> {IntV(1), EmptyDict}
      [] crown.kind = "dict" ->
           {DictV(WithUndeclared(f, j)) :
                f \in DictCombos(crown, Len(crown.subs)), j \in 0..MaxExtraKeys}
           \cup NonMappings
      [] crown.kind = "list" ->
           {ListV(s) : s \in UNION {ListCombos(crown, i) : i \in 0..Len(crown.subs)}}
           \cup {ListV(WithTrailing(s, j)) :
                     s \in ListCombos(crown, Len(crown.subs)), j \in 1..MaxExtraItems}
           \cup NonLists

-----------------------------------------------------------------------------
(* State machine.                                                          *)

Init ==
    /\ cfg \in Generators
    /\ gen = NewGenState(cfg.debug_trail, cfg.crown)
    /\ procs = <<>>
    /\ phase = "idle"
    /\ inp = NoneV
    /\ frame = NewFrame(NoneV)

\* BuiltinInputExtractionGen.__call__ on the generator
Compile ==
    /\ phase = "idle"
    /\ Len(procs) < MaxCompiles
    /\ gen.raised = ""
    /\ LET st == Call(cfg, gen)
       IN  /\ gen' = st
           /\ procs' = IF st.raised = "" 
                       THEN Append(procs, [code |-> st.builder, known_keys |-> st.known_keys])
                       ELSE procs
    /\ UNCHANGED <<cfg, phase, inp, frame>>

\* the procedure compiled last is called with a raw value
Invoke ==
    /\ phase = "idle"
    /\ Len(procs) = MaxCompiles
    /\ \E data \in ValuesFor(cfg.crown) :
           /\ inp' = data
           /\ frame' = NewFrame(data)
    /\ phase' = "running"
    /\ UNCHANGED <<cfg, gen, procs>>

Proc == procs[Len(procs)]

\* the running invocation is at a statement of kind op
At(op) ==
    /\ phase = "running"
    /\ ~AtEnd(Proc, frame)
    /\ CurrentInstr(Proc, frame).op = op

\* the statement leaves the frame fr behind
Becomes(fr) ==
    /\ frame' = fr
    /\ phase' = IF fr.status = "running" THEN "running" ELSE "done"
    /\ UNCHANGED <<cfg, gen, procs, inp>>

StepInitErrors ==
    /\ At("init_errors")
    /\ Becomes(ExecInitErrors(CurrentInstr(Proc, frame), frame))

StepInitOptFields ==
    /\ At("init_opt_fields")
    /\ Becomes(ExecInitOptFields(CurrentInstr(Proc, frame), frame))

StepRead ==
    /\ At("read")
    /\ Becomes(ExecRead(CurrentInstr(Proc, frame), frame))

StepLoad ==
    /\ At("load")
    /\ Becomes(ExecLoad(CurrentInstr(Proc, frame), frame))

StepCheckMapping ==
    /\ At("check_mapping")
    /\ Becomes(ExecCheckMapping(CurrentInstr(Proc, frame), frame))

StepCheckSequence ==
    /\ At("check_sequence")
    /\ Becomes(ExecCheckSequence(CurrentInstr(Proc, frame), frame))

StepCheckNotStr ==
    /\ At("check_not_str")
    /\ Becomes(ExecCheckNotStr(CurrentInstr(Proc, frame), frame))

StepInitExtra ==
    /\ At("init_extra")
    /\ Becomes(ExecInitExtra(CurrentInstr(Proc, frame), frame))

StepForbidExtra ==
    /\ At("forbid_extra")
    /\ Becomes(ExecForbidExtra(Proc.known_keys, CurrentInstr(Proc, frame), frame))

StepCollectExtra ==
    /\ At("collect_extra")
    /\ Becomes(ExecCollectExtra(Proc.known_keys, CurrentInstr(Proc, frame), frame))

StepAddExtraToParent ==
    /\ At("add_extra_to_parent")
    /\ Becomes(ExecAddExtraToParent(CurrentInstr(Proc, frame), frame))

StepCheckLen ==
    /\ At("check_len")
    /\ Becomes(ExecCheckLen(CurrentInstr(Proc, frame), frame))

StepRaiseGroup ==
    /\ At("raise_group")
    /\ Becomes(ExecRaiseGroup(CurrentInstr(Proc, frame), frame))

\* the procedure falls off its last statement
Return ==
    /\ phase = "running"
    /\ AtEnd(Proc, frame)
    /\ frame' = [frame EXCEPT !.status = "returned"]
    /\ phase' = "done"
    /\ UNCHANGED <<cfg, gen, procs, inp>>

Next ==
    \/ Compile
    \/ Invoke
    \/ StepInitErrors
    \/ StepInitOptFields
    \/ StepRead
    \/ StepLoad
    \/ StepCheckMapping
    \/ StepCheckSequence
    \/ StepCheckNotStr
    \/ StepInitExtra
    \/ StepForbidExtra
    \/ StepCollectExtra
    \/ StepAddExtraToParent
    \/ StepCheckLen
    \/ StepRaiseGroup
    \/ Return

Spec == Init /\ [][Next]_vars

-----------------------------------------------------------------------------
(* Vocabulary of the properties.                                           *)

Done == phase = "done"
Returned == Done /\ frame.status = "returned"
Raised == Done /\ frame.status = "raised"

\* the field-id-to-value mapping handed on by a normal return
Bound(id) == id \in DOMAIN frame.fields \cup DOMAIN frame.opt_fields
ValueOf(id) == IF id \in DOMAIN frame.fields THEN frame.fields[id] ELSE frame.opt_fields[id]

\* the errors a failed invocation reports: the members of the group in ALL
\* mode, the raised error otherwise
IsGroup(e) == e.kind \in {"LoadExceptionGroup", "CompatExceptionGroup"}
Reported == IF IsGroup(frame.exc) THEN frame.exc.payload ELSE <<frame.exc>>

\* the trail an error located at path carries under the generator's mode
TrailFor(path) == IF cfg.debug_trail = "NONE" THEN <<>> ELSE path

ChildKey(crown, i) == IF crown.kind = "dict" THEN Key(crown.keys[i]) ELSE Idx(i - 1)
HasChild(crown, v, i) == GetItem(v, ChildKey(crown, i)).ok
ChildValue(crown, v, i) == GetItem(v, ChildKey(crown, i)).val
DeclaredKeys(crown) == {KeyV(k) : k \in SeqRange(crown.keys)}

\* v has exactly the shape the crown declares: every declared key or index
\* present, every container of the declared kind, nothing undeclared
RECURSIVE MatchesShape(_, _)
MatchesShape(crown, v) ==
    CASE crown.kind = "dict" ->
           /\ v.kind = "dict"
           /\ DOMAIN v.val = DeclaredKeys(crown)
           /\ \A i \in 1..Len(crown.subs) : MatchesShape(crown.subs[i], ChildValue(crown, v, i))
      [] crown.kind = "list" ->
           /\ v.kind = "list"
           /\ Len(v.val) = Len(crown.subs)
           /\ \A i \in 1..Len(crown.subs) : MatchesShape(crown.subs[i], v.val[i])
      [] OTHER -> TRUE

\* the raw value at the position of each field of the crown, for the
\* positions that exist in v: a set of <<field id, path, raw value>>
RECURSIVE RawAt(_, _, _)
RawAt(crown, v, path) ==
    CASE crown.kind = "field" -> {<<crown.id, path, v>>}
      [] crown.kind = "none" -> {}
      [] OTHER ->
           UNION {IF HasChild(crown, v, i)
                  THEN RawAt(crown.subs[i], ChildValue(crown, v, i),
                             Append(path, ChildKey(crown, i)))
                  ELSE {} : i \in 1..Len(crown.subs)}

FieldsOf(crown) == SeqRange(CrownFields(crown))
AllLoad(crown, v) == \A r \in RawAt(crown, v, <<>>) : r[3] # BadRaw

\* v with the undeclared keys of every mapping removed
RECURSIVE Strip(_, _)
Strip(crown, v) ==
    CASE crown.kind = "dict" /\ v.kind = "dict" ->
           DictV([k \in DOMAIN v.val \cap DeclaredKeys(crown) |->
                     LET i == CHOOSE i \in 1..Len(crown.subs) : KeyV(crown.keys[i]) = k
                     IN  Strip(crown.subs[i], v.val[k])])
      [] crown.kind = "list" /\ v.kind = "list" ->
           ListV([i \in 1..Len(v.val) |->
                     IF i <= Len(crown.subs) THEN Strip(crown.subs[i], v.val[i]) ELSE v.val[i]])
      [] OTHER -> v

\* the mappings of v that hold undeclared keys: a set of
\* <<path of the dict node, its extra policy, the undeclared keys>>
RECURSIVE Undeclared(_, _, _)
Undeclared(crown, v, path) ==
    (IF crown.kind = "dict" /\ v.kind = "dict" /\ DOMAIN v.val \ DeclaredKeys(crown) # {}
     THEN {<<path, crown.extra_policy, DOMAIN v.val \ DeclaredKeys(crown)>>}
     ELSE {})
    \cup
    (IF crown.kind \in {"dict", "list"} /\ v.kind = crown.kind
     THEN UNION {IF HasChild(crown, v, i)
                 THEN Undeclared(crown.subs[i], ChildValue(crown, v, i),
                                 Append(path, ChildKey(crown, i)))
                 ELSE {} : i \in 1..Len(crown.subs)}
     ELSE {})

\* ids of the extra targets
TargetIds == SeqRange(cfg.extra_move.fields)

----------------------------------------------------------------------------
(* C1: for every crown, debug-trail mode and input that matches the crown  *)
(* exactly, with loaders that all succeed, the procedure returns and binds *)
(* the field of each FieldCrown to loader(raw value at the crown's path);  *)
(* apart from extra targets it binds nothing else.                         *)
C1_ExactMatchExtracts ==
    (Done /\ MatchesShape(cfg.crown, inp) /\ AllLoad(cfg.crown, inp)) =>
        /\ Returned
        /\ \A r \in RawAt(cfg.crown, inp, <<>>) :
               Bound(r[1]) /\ ValueOf(r[1]) = Loaded(r[1], r[3])
        /\ (DOMAIN frame.fields \cup DOMAIN frame.opt_fields) \ TargetIds = FieldsOf(cfg.crown)

\* crown {x: f1, y: {z: f2}} on {x: 1, y: {z: 2}} yields {f1: 1, f2: 2}
C1_Witness ==
    /\ Returned
    /\ cfg.crown = CrownA("forbid", "forbid")
    /\ inp = DictV(DictSet(DictSet(EmptyFcn, KeyV("x"), IntV(1)), KeyV("y"),
                           DictV(DictSet(EmptyFcn, KeyV("z"), IntV(2)))))
    /\ Bound("f1") /\ ValueOf("f1") = Loaded("f1", IntV(1))
    /\ Bound("f2") /\ ValueOf("f2") = Loaded("f2", IntV(2))

----------------------------------------------------------------------------
(* C2: when exactly one dict node of an otherwise valid input holds        *)
(* exactly one undeclared key and that node forbids extra data, extraction *)
(* fails with ExtraFieldsError whose key set is that one key (the only     *)
(* member of the group in ALL mode); in FIRST and ALL mode the error       *)
(* carries the path of the node.                                           *)
OneUndeclaredKeyAtForbid ==
    /\ MatchesShape(cfg.crown, Strip(cfg.crown, inp))
    /\ AllLoad(cfg.crown, inp)
    /\ \E u \in Undeclared(cfg.crown, inp, <<>>) :
           /\ Undeclared(cfg.crown, inp, <<>>) = {u}
           /\ u[2] = "forbid"
           /\ Cardinality(u[3]) = 1

C2_ForbidRejectsUndeclaredKey ==
    (Done /\ OneUndeclaredKeyAtForbid) =>
        LET u == CHOOSE u \in Undeclared(cfg.crown, inp, <<>>) : TRUE
        IN  /\ Raised
            /\ IsGroup(frame.exc) <=> cfg.debug_trail = "ALL"
            /\ Reported = << [kind |-> "ExtraFieldsError", payload |-> u[3],
                              trail |-> TrailFor(u[1])] >>

\* {x: 1, y: {z: 2, w: 1}} fails with ExtraFieldsError({w}) at path (y,)
C2_Witness ==
    /\ Raised
    /\ OneUndeclaredKeyAtForbid
    /\ cfg.crown = CrownA("forbid", "forbid")
    /\ cfg.debug_trail = "FIRST"
    /\ frame.exc = [kind |-> "ExtraFieldsError", payload |-> {KeyV("w")},
                    trail |-> <<Key("y")>>]

----------------------------------------------------------------------------
\* v with a loadable raw value put at every absent key of a mapping that
\* the crown declares as a field
RECURSIVE Fill(_, _)
Fill(crown, v) ==
    CASE crown.kind = "dict" /\ v.kind = "dict" ->
           DictV([k \in DOMAIN v.val \cup
                        {KeyV(crown.keys[i]) : i \in {j \in 1..Len(crown.subs) :
                                                        crown.subs[j].kind = "field"}} |->
                     IF k \notin DeclaredKeys(crown) THEN v.val[k]
                     ELSE LET i == CHOOSE i \in 1..Len(crown.subs) : KeyV(crown.keys[i]) = k
                          IN  IF k \in DOMAIN v.val THEN Fill(crown.subs[i], v.val[k])
                              ELSE GoodRaw(crown.subs[i].id)])
      [] crown.kind = "list" /\ v.kind = "list" ->
           ListV([i \in 1..Len(v.val) |->
                     IF i <= Len(crown.subs) THEN Fill(crown.subs[i], v.val[i]) ELSE v.val[i]])
      [] OTHER -> v

\* the fields declared at a key that the input mapping lacks, in declared
\* depth-first order: [id, key, path of the mapping]
RECURSIVE MissingFrom(_, _, _, _)
MissingFrom(crown, v, path, i) ==
    IF v.kind # crown.kind \/ i > Len(crown.subs) THEN <<>>
    ELSE (IF HasChild(crown, v, i)
          THEN IF IsBranchCrown(crown.subs[i])
               THEN MissingFrom(crown.subs[i], ChildValue(crown, v, i),
                                Append(path, ChildKey(crown, i)), 1)
               ELSE <<>>
          ELSE IF crown.kind = "dict" /\ crown.subs[i].kind = "field"
               THEN <<[id |-> crown.subs[i].id, key |-> crown.keys[i], path |-> path]>>
               ELSE <<>>)
         \o MissingFrom(crown, v, path, i + 1)

Missing == MissingFrom(cfg.crown, inp, <<>>, 1)
IsRequiredMissing(m) == cfg.fields[m.id].is_required
RequiredMissing == SelectSeq(Missing, IsRequiredMissing)
NoRequiredFieldsAt(m) ==
    [kind |-> "NoRequiredFieldsError", payload |-> <<m.key>>, trail |-> TrailFor(m.path)]

\* the input is valid except that keys of declared fields are absent
AbsentFieldKeys ==
    /\ Missing # <<>>
    /\ MatchesShape(cfg.crown, Fill(cfg.crown, inp))
    /\ AllLoad(cfg.crown, inp)

(* C3: when the key of a FieldCrown is absent from an otherwise valid      *)
(* input mapping, the loader of that field is not called and the field is  *)
(* not bound; if every absent field is optional extraction succeeds; if    *)
(* one is required extraction fails with NoRequiredFieldsError([key]) for  *)
(* the first of them (for each of them, grouped, in ALL mode), located at  *)
(* the mapping's path.                                                     *)
C3_AbsentDictKey ==
    (Done /\ AbsentFieldKeys) =>
        /\ \A j \in 1..Len(Missing) :
               /\ ~Bound(Missing[j].id)
               /\ \A n \in 1..Len(frame.calls) : frame.calls[n][1] # Missing[j].id
        /\ RequiredMissing = <<>> => Returned
        /\ RequiredMissing # <<>> =>
               /\ Raised
               /\ IsGroup(frame.exc) <=> cfg.debug_trail = "ALL"
               /\ Reported = IF cfg.debug_trail = "ALL"
                             THEN [j \in 1..Len(RequiredMissing) |->
                                      NoRequiredFieldsAt(RequiredMissing[j])]
                             ELSE <<NoRequiredFieldsAt(RequiredMissing[1])>>

\* {y: {z: 2}} with optional fields returns without f1
C3_Witness ==
    /\ Returned
    /\ AbsentFieldKeys
    /\ cfg.crown = CrownA("forbid", "forbid")
    /\ ~cfg.fields["f1"].is_required
    /\ KeyV("x") \notin DOMAIN inp.val
    /\ ~Bound("f1")
    /\ Bound("f2") /\ ValueOf("f2") = Loaded("f2", IntV(2))

----------------------------------------------------------------------------
\* a value of exactly the crown's shape whose raw values all load
RECURSIVE ValidValue(_)
ValidValue(crown) ==
    CASE crown.kind = "field" -> GoodRaw(crown.id)
      [] crown.kind = "none" -> IntV(1)
      [] crown.kind = "dict" ->
           DictV([k \in DeclaredKeys(crown) |->
                     LET i == CHOOSE i \in 1..Len(crown.subs) : KeyV(crown.keys[i]) = k
                     IN  ValidValue(crown.subs[i])])
      [] OTHER -> ListV([i \in 1..Len(crown.subs) |-> ValidValue(crown.subs[i])])

\* v with every list cut or padded to the number of declared children
RECURSIVE PadTrim(_, _)
PadTrim(crown, v) ==
    CASE crown.kind = "dict" /\ v.kind = "dict" ->
           DictV([k \in DOMAIN v.val |->
                     IF k \notin DeclaredKeys(crown) THEN v.val[k]
                     ELSE LET i == CHOOSE i \in 1..Len(crown.subs) : KeyV(crown.keys[i]) = k
                          IN  PadTrim(crown.subs[i], v.val[k])])
      [] crown.kind = "list" /\ v.kind = "list" ->
           ListV([i \in 1..Len(crown.subs) |->
                     IF i <= Len(v.val) THEN PadTrim(crown.subs[i], v.val[i])
                     ELSE ValidValue(crown.subs[i])])
      [] OTHER -> v

\* the list nodes whose input list has not the declared length:
\* <<path, extra policy, declared length, length of the input list>>
RECURSIVE WrongLength(_, _, _)
WrongLength(crown, v, path) ==
    (IF crown.kind = "list" /\ v.kind = "list" /\ Len(v.val) # Len(crown.subs)
     THEN {<<path, crown.extra_policy, Len(crown.subs), Len(v.val)>>}
     ELSE {})
    \cup
    (IF crown.kind \in {"dict", "list"} /\ v.kind = crown.kind
     THEN UNION {IF HasChild(crown, v, i)
                 THEN WrongLength(crown.subs[i], ChildValue(crown, v, i),
                                  Append(path, ChildKey(crown, i)))
                 ELSE {} : i \in 1..Len(crown.subs)}
     ELSE {})

\* the input is valid except for the length of its lists
ValidButLength ==
    /\ MatchesShape(cfg.crown, PadTrim(cfg.crown, inp))
    /\ AllLoad(cfg.crown, inp)

ListLengthRule(o) ==
    CASE o[4] < o[3] ->
           /\ Raised
           /\ Reported = << [kind |-> "NoRequiredItemsError", payload |-> o[3],
                             trail |-> TrailFor(o[1])] >>
      [] o[4] > o[3] /\ o[2] = "forbid" ->
           /\ Raised
           /\ Reported = << [kind |-> "ExtraItemsError", payload |-> o[3],
                             trail |-> TrailFor(o[1])] >>
      [] OTHER -> Returned

(* C4: for a list node with n declared children and an input list of      *)
(* length L in an otherwise valid input whose items all load: L < n fails  *)
(* with NoRequiredItemsError(n) under every extra policy, L > n fails with *)
(* ExtraItemsError(n) under Forbid and succeeds otherwise, L = n succeeds. *)
C4_ListLengthRule ==
    (Done /\ ValidButLength /\ Cardinality(WrongLength(cfg.crown, inp, <<>>)) <= 1) =>
        /\ WrongLength(cfg.crown, inp, <<>>) = {} => Returned
        /\ \A o \in WrongLength(cfg.crown, inp, <<>>) : ListLengthRule(o)

\* the same rule for list crowns whose children are all leaves
AllLeaves(crown) == \A i \in 1..Len(crown.subs) : ~IsBranchCrown(crown.subs[i])
RECURSIVE ListsOfLeaves(_)
ListsOfLeaves(crown) ==
    /\ crown.kind = "list" => AllLeaves(crown)
    /\ IsBranchCrown(crown) => \A i \in 1..Len(crown.subs) : ListsOfLeaves(crown.subs[i])
C4_LeafListLengthRule == ListsOfLeaves(cfg.crown) => C4_ListLengthRule

----------------------------------------------------------------------------
\* where the crown puts a field, and the error its loader raises there
PathOf(id) == (CHOOSE r \in RawAt(cfg.crown, ValidValue(cfg.crown), <<>>) : r[1] = id)[2]
LoadErrorOf(id) == [kind |-> "LoadError", payload |-> id, trail |-> TrailFor(PathOf(id))]

\* the crown has two required fields, both present with a raw value that
\* the loader rejects, in an otherwise valid input
TwoFailingFields ==
    /\ Len(CrownFields(cfg.crown)) = 2
    /\ \A id \in FieldsOf(cfg.crown) : cfg.fields[id].is_required
    /\ MatchesShape(cfg.crown, inp)
    /\ \A r \in RawAt(cfg.crown, inp, <<>>) : r[3] = BadRaw

(* C5: in ALL mode, when two required fields are present and both loaders  *)
(* fail, extraction fails with one LoadExceptionGroup that holds exactly   *)
(* two errors, the loader error of each field located at the path of that  *)
(* field; the second field is processed although the first failed.         *)
C5_AllModeCollectsBoth ==
    (Done /\ cfg.debug_trail = "ALL" /\ TwoFailingFields) =>
        /\ Raised
        /\ frame.exc.kind = "LoadExceptionGroup"
        /\ frame.exc.payload = [j \in 1..2 |-> LoadErrorOf(CrownFields(cfg.crown)[j])]
        /\ \A id \in FieldsOf(cfg.crown) :
               \E n \in 1..Len(frame.calls) : frame.calls[n] = <<id, BadRaw>>

\* {x: bad, y: {z: bad}} in ALL mode reports f1 at (x,) and f2 at (y, z)
C5_Witness ==
    /\ Raised
    /\ cfg.debug_trail = "ALL"
    /\ TwoFailingFields
    /\ cfg.crown = CrownA("forbid", "forbid")
    /\ frame.exc.payload =
           << [kind |-> "LoadError", payload |-> "f1", trail |-> <<Key("x")>>],
              [kind |-> "LoadError", payload |-> "f2", trail |-> <<Key("y"), Key("z")>>] >>

----------------------------------------------------------------------------
\* the fields that fail: present with a raw value the loader rejects, or
\* required and absent from their mapping
IsFailing(id) ==
    \/ \E r \in RawAt(cfg.crown, inp, <<>>) : r[1] = id /\ r[3] = BadRaw
    \/ \E j \in 1..Len(RequiredMissing) : RequiredMissing[j].id = id
FailingFields == SelectSeq(CrownFields(cfg.crown), IsFailing)
FailureOf(id) ==
    IF \E j \in 1..Len(Missing) : Missing[j].id = id
    THEN NoRequiredFieldsAt(Missing[CHOOSE j \in 1..Len(Missing) : Missing[j].id = id])
    ELSE LoadErrorOf(id)

\* position of a field in the declared depth-first order
OrderOf(id) == CHOOSE j \in 1..Len(CrownFields(cfg.crown)) : CrownFields(cfg.crown)[j] = id

\* field id was not touched: its raw value was not read, its loader not
\* called, nothing bound
Untouched(id) ==
    /\ id \notin DOMAIN frame.raw
    /\ \A n \in 1..Len(frame.calls) : frame.calls[n][1] # id
    /\ ~Bound(id)

(* C6: in NONE and FIRST mode a failing invocation raises exactly one      *)
(* error, never a group; when fields fail in an input of otherwise valid   *)
(* shape it is the failure of the first failing field in declared          *)
(* depth-first order, and no field after that one, nor an extra target, is *)
(* read or loaded.                                                         *)
C6_FirstFailureOnly ==
    (Done /\ cfg.debug_trail \in {"NONE", "FIRST"}) =>
        /\ Raised => ~IsGroup(frame.exc) /\ frame.errors = <<>>
        /\ (FailingFields # <<>> /\ MatchesShape(cfg.crown, Fill(cfg.crown, inp))) =>
               /\ Raised
               /\ frame.exc = FailureOf(FailingFields[1])
               /\ \A id \in FieldsOf(cfg.crown) :
                      OrderOf(id) > OrderOf(FailingFields[1]) => Untouched(id)
               /\ \A id \in TargetIds : Untouched(id)

\* {x: bad, y: {z: bad}} in FIRST mode raises the error of f1; f2 untouched
C6_Witness ==
    /\ Raised
    /\ cfg.debug_trail = "FIRST"
    /\ cfg.crown = CrownA("forbid", "forbid")
    /\ Len(FailingFields) = 2
    /\ MatchesShape(cfg.crown, inp)
    /\ frame.exc = [kind |-> "LoadError", payload |-> "f1", trail |-> <<Key("x")>>]
    /\ Untouched("f2")

----------------------------------------------------------------------------
\* the overflow of a node as the contract describes it: the undeclared keys
\* of a mapping with their values, and under a declared key (or at an
\* index) the overflow of the nested node when that node collects too
CollectingChild(crown, i) ==
    IsBranchCrown(crown.subs[i]) /\ crown.subs[i].extra_policy = "collect"
RECURSIVE ExpectedOverflow(_, _)
ExpectedOverflow(crown, v) ==
    IF crown.kind = "dict"
    THEN DictV([k \in (DOMAIN v.val \ DeclaredKeys(crown)) \cup
                      {KeyV(crown.keys[i]) : i \in {j \in 1..Len(crown.subs) :
                                                      CollectingChild(crown, j)}} |->
                   IF k \notin DeclaredKeys(crown) THEN v.val[k]
                   ELSE LET i == CHOOSE i \in 1..Len(crown.subs) : KeyV(crown.keys[i]) = k
                        IN  ExpectedOverflow(crown.subs[i], v.val[k])])
    ELSE ListV([i \in 1..Len(crown.subs) |->
                   IF ~IsBranchCrown(crown.subs[i]) THEN EmptyDict
                   ELSE IF CollectingChild(crown, i)
                        THEN ExpectedOverflow(crown.subs[i], v.val[i])
                        ELSE NoneV])

\* a valid input: the declared shape, loadable values, undeclared keys only
\* where the node does not forbid them
ValidWithOverflow ==
    /\ MatchesShape(cfg.crown, Strip(cfg.crown, inp))
    /\ AllLoad(cfg.crown, inp)
    /\ \A u \in Undeclared(cfg.crown, inp, <<>>) : u[2] # "forbid"

RootCollectsIntoTarget ==
    /\ cfg.crown.kind = "dict"
    /\ cfg.crown.extra_policy = "collect"
    /\ cfg.extra_move.kind = "targets"
    /\ Len(cfg.extra_move.fields) = 1

(* C7: when the root collects and extra_move = Targets([f]), on every      *)
(* valid input the loader of f is called with exactly the mapping of the   *)
(* undeclared root keys to their values, with an entry under a declared    *)
(* key only when that key leads to a nested node that collects itself.     *)
C7_TargetGetsExactOverflow ==
    (Done /\ RootCollectsIntoTarget /\ ValidWithOverflow) =>
        \E n \in 1..Len(frame.calls) :
            frame.calls[n] = <<cfg.extra_move.fields[1], ExpectedOverflow(cfg.crown, inp)>>

\* the same statement for crowns whose nested nodes all collect
RECURSIVE AllCollect(_)
AllCollect(crown) ==
    IsBranchCrown(crown) =>
        /\ crown.extra_policy = "collect"
        /\ \A i \in 1..Len(crown.subs) : AllCollect(crown.subs[i])
C7_AllCollectOverflow == AllCollect(cfg.crown) => C7_TargetGetsExactOverflow

----------------------------------------------------------------------------
\* the paths of the list nodes of a crown
RECURSIVE ListNodePaths(_, _)
ListNodePaths(crown, path) ==
    IF ~IsBranchCrown(crown) THEN {}
    ELSE (IF crown.kind = "list" THEN {path} ELSE {})
         \cup UNION {ListNodePaths(crown.subs[i], Append(path, ChildKey(crown, i))) :
                        i \in 1..Len(crown.subs)}

\* the local variable data_<n> of the node at path holds a str
SlotOf(path) == IF path = <<>> THEN 0 ELSE gen.path_to_suffix[path]
HoldsStr(path) ==
    /\ phase \in {"running", "done"}
    /\ SlotOf(path) \in DOMAIN frame.data
    /\ frame.data[SlotOf(path)].kind = "str"
StrAtListNode == {p \in ListNodePaths(cfg.crown, <<>>) : HoldsStr(p)}
ReadsFrom(path) == {n \in 1..Len(frame.reads) : frame.reads[n][1] = SlotOf(path)}

(* C8: with strict_coercion on, once the value of a list node is a str no  *)
(* child of that node is ever read from it, and the invocation fails with  *)
(* TypeLoadError(list) located at the node, raised directly in every       *)
(* debug-trail mode.                                                       *)
C8_StrictRejectsStr ==
    cfg.strict_coercion =>
        \A p \in StrAtListNode :
            /\ ReadsFrom(p) = {}
            /\ Done => /\ Raised
                       /\ frame.exc = [kind |-> "TypeLoadError", payload |-> "list",
                                       trail |-> TrailFor(p)]

\* {y: "ab"} for crown {y: [f2, None]} fails at (y,) without reading y[0]
C8_Witness ==
    /\ Raised
    /\ cfg.strict_coercion
    /\ cfg.debug_trail = "ALL"
    /\ cfg.crown = CrownB("forbid", "forbid")
    /\ StrAtListNode = {<<Key("y")>>}
    /\ frame.exc = [kind |-> "TypeLoadError", payload |-> "list", trail |-> <<Key("y")>>]
    /\ frame.calls = <<>>

(* C9: with strict_coercion off, a str at a list node is never decoded     *)
(* character by character: no loader of a field of that node is called     *)
(* with a single character of the string, and the invocation does not      *)
(* succeed.                                                                *)
CharsOf(v) == {StrV(<<v.val[i]>>) : i \in 1..Len(v.val)}
C9_NoCharByCharDecoding ==
    ~cfg.strict_coercion =>
        \A p \in StrAtListNode :
            /\ \A n \in 1..Len(frame.calls) :
                   frame.calls[n][2] \notin CharsOf(frame.data[SlotOf(p)])
            /\ ~Returned

----------------------------------------------------------------------------
----------------------------------------------------------------------------
(* Two invocations of one procedure at a time.  Under SpecPair inp holds   *)
(* the two inputs and frame holds the frame of each invocation next to the *)
(* objects of the context namespace both invocations refer to (the         *)
(* known_keys sets); the statements of the two invocations interleave in   *)
(* every order, as two threads calling the procedure would.                *)

\* a statement that folds the keys it has looked at into the shared
\* known_keys set (faulty variant)
KnownKeysAfter_Absorbs(known_keys, instr, fr) ==
    IF instr.op \in {"forbid_extra", "collect_extra"}
       /\ instr.data \in DOMAIN fr.data /\ fr.data[instr.data].kind = "dict"
    THEN [known_keys EXCEPT ![instr.known_keys] = @ \cup DOMAIN fr.data[instr.data].val]
    ELSE known_keys

\* the known_keys sets after a statement: "set(data) - known_keys" builds a
\* new set, no emitted statement stores into a namespace object
KnownKeysAfter(known_keys, instr, fr) == known_keys

\* the generators run in pairs: a dict and a list root, nested nodes with
\* Forbid and Collect, extra collected into a target, errors collected
PairGenerators ==
    {g \in Generators :
        /\ g.crown \in {CrownA("forbid", "collect"), CrownB("collect", "forbid")}
        /\ g.debug_trail \in {"FIRST", "ALL"}
        /\ g.extra_move.kind = "targets"
        /\ \A id \in DOMAIN g.fields : g.fields[id].is_required
        /\ ~g.strict_coercion}

\* the inputs of the declared shape whose values load, with or without
\* undeclared keys
WellFormed(crown) ==
    {v \in ValuesFor(crown) : MatchesShape(crown, Strip(crown, v)) /\ AllLoad(crown, v)}

InitPair ==
    /\ cfg \in PairGenerators
    /\ gen = NewGenState(cfg.debug_trail, cfg.crown)
    /\ procs = <<>>
    /\ phase = "idle"
    /\ inp = <<NoneV, NoneV>>
    /\ frame = [inv |-> <<NewFrame(NoneV), NewFrame(NoneV)>>, known_keys |-> EmptyFcn]

\* two callers enter the procedure compiled last, one with any input, one
\* with a well-formed one
InvokePair ==
    /\ phase = "idle"
    /\ Len(procs) = MaxCompiles
    /\ \E a \in ValuesFor(cfg.crown), b \in WellFormed(cfg.crown) :
           /\ inp' = <<a, b>>
           /\ frame' = [inv |-> <<NewFrame(a), NewFrame(b)>>, known_keys |-> Proc.known_keys]
    /\ phase' = "pair"
    /\ UNCHANGED <<cfg, gen, procs>>

\* the procedure as the invocations find it: its code and the namespace
PairProc == [code |-> Proc.code, known_keys |-> frame.known_keys]

\* invocation i executes its next statement
StepInvocation ==
    \E i \in 1..2 :
        /\ phase = "pair"
        /\ frame.inv[i].status = "running"
        /\ ~AtEnd(PairProc, frame.inv[i])
        /\ frame' = [inv |-> [frame.inv EXCEPT ![i] =
                                 ExecInstr(PairProc, CurrentInstr(PairProc, frame.inv[i]),
                                           frame.inv[i])],
                     known_keys |-> KnownKeysAfter(frame.known_keys,
                                                   CurrentInstr(PairProc, frame.inv[i]),
                                                   frame.inv[i])]
        /\ UNCHANGED <<cfg, gen, procs, phase, inp>>

\* invocation i falls off the last statement
ReturnInvocation ==
    \E i \in 1..2 :
        /\ phase = "pair"
        /\ frame.inv[i].status = "running"
        /\ AtEnd(PairProc, frame.inv[i])
        /\ frame' = [frame EXCEPT !.inv[i].status = "returned"]
        /\ UNCHANGED <<cfg, gen, procs, phase, inp>>

NextPair ==
    \/ Compile
    \/ InvokePair
    \/ StepInvocation
    \/ ReturnInvocation

SpecPair == InitPair /\ [][NextPair]_vars

(* C11: the procedure keeps no state between invocations: however the      *)
(* statements of two invocations on inputs A and B interleave, each ends   *)
(* as it does when run alone on a fresh frame, and the shared known_keys   *)
(* sets stay as compiled.                                                  *)
Finished(i) == phase = "pair" /\ frame.inv[i].status # "running"
----------------------------------------------------------------------------
\* the errors of the contract, and the errors of a loader
ContractKinds ==
    {"NoRequiredFieldsError", "NoRequiredItemsError", "TypeLoadError",
     "ExtraFieldsError", "ExtraItemsError", "LoadError"}

(* C12: in ALL mode no error of the contract (missing field or item, wrong *)
(* container type, extra fields or items, loader failure) is raised alone: *)
(* when the procedure fails with such an error, it fails with the group    *)
(* raised at the end, which holds every collected error.                   *)
C12_AllModeRaisesOnlyGroups ==
    (Raised /\ cfg.debug_trail = "ALL") =>
        /\ frame.exc.kind \notin ContractKinds
        /\ IsGroup(frame.exc) => frame.exc.payload = frame.errors /\ frame.pc = Len(Proc.code)

\* apart from the wrong-container-type error (and the internal errors of
\* the procedure), an ALL-mode failure is always the group
C12_OnlyTypeErrorBypasses ==
    (Raised /\ cfg.debug_trail = "ALL") =>
        /\ frame.exc.kind \in ContractKinds => frame.exc.kind = "TypeLoadError"
        /\ IsGroup(frame.exc) => frame.exc.payload = frame.errors /\ frame.pc = Len(Proc.code)

----------------------------------------------------------------------------
\* the paths of the nested container nodes of a crown
RECURSIVE NestedNodePaths(_, _)
NestedNodePaths(crown, path) ==
    IF ~IsBranchCrown(crown) THEN {}
    ELSE (IF path # <<>> THEN {path} ELSE {})
         \cup UNION {NestedNodePaths(crown.subs[i], Append(path, ChildKey(crown, i))) :
                        i \in 1..Len(crown.subs)}

ParentOf(path) == SubSeq(path, 1, Len(path) - 1)
IsBelow(trail, path) == Len(trail) > Len(path) /\ SubSeq(trail, 1, Len(path)) = path

\* the read of the node's own value was made and left data_<n> unassigned
FailedRead(path) ==
    /\ phase \in {"running", "done"}
    /\ \E n \in 1..Len(frame.reads) :
           frame.reads[n] = <<SlotOf(ParentOf(path)), path[Len(path)]>>
    /\ SlotOf(path) \notin DOMAIN frame.data

(* C13: in ALL mode, once the value of a nested container node could not   *)
(* be read from its parent, nothing is read from that node, no loader of a *)
(* field below it is called and no error located below it is recorded.     *)
C13_NoDescentAfterFailedRead ==
    cfg.debug_trail = "ALL" =>
        \A p \in NestedNodePaths(cfg.crown, <<>>) :
            FailedRead(p) =>
                /\ ReadsFrom(p) = {}
                /\ \A n \in 1..Len(frame.errors) : ~IsBelow(frame.errors[n].trail, p)
                /\ \A r \in RawAt(cfg.crown, ValidValue(cfg.crown), <<>>) :
                       IsBelow(r[2], p) => Untouched(r[1])

-----------------------------------------------------------------------------
(* C14: for every crown, mode and input, a failing invocation surfaces     *)
(* only a missing-required-field, missing-required-item,                   *)
(* wrong-container-type, extra-fields-present or extra-items-present       *)
(* error, a field loader's own error, or (ALL mode) an aggregate of        *)
(* these; it never surfaces an internal error of the procedure itself      *)
(* (a reference to a never-assigned container slot, a raw type error from  *)
(* computing the key set of a non-mapping).                                *)
OnlyContractErrors(errs) ==
    \A n \in 1..Len(errs) : errs[n].kind \in ContractKinds

C14_OnlyContractErrorsSurface ==
    Raised =>
        \/ frame.exc.kind \in ContractKinds
        \/ /\ cfg.debug_trail = "ALL"
           /\ IsGroup(frame.exc)
           /\ OnlyContractErrors(frame.exc.payload)

-----------------------------------------------------------------------------
(* C15: extra-target routing.  With extra_move = Targets(ids) the          *)
(* assignments of the targets are the last statements before the final     *)
(* error check.  When the procedure gets as far as these statements: if    *)
(* the root policy is Collect, the loader of every target is called with   *)
(* the mapping the root has collected, which holds every undeclared root   *)
(* key with its value; otherwise the loader of every required target is    *)
(* called with an empty mapping and nothing is looked up for it, and the   *)
(* loader of an optional target is not called and the field stays absent.  *)

\* the invocation has run through the statements of the extra targets
PassedTargets ==
    \/ Returned
    \/ Raised /\ cfg.debug_trail = "ALL" /\ IsGroup(frame.exc)

\* the loader calls made for a field, in order
CallsOf(id) == SelectSeq(frame.calls, LAMBDA c : c[1] = id)

IsTargetLoad(instr) == instr.op = "load" /\ instr.field_id \in TargetIds

\* nothing but target assignments and the final check follows the first
\* target assignment
TargetsAfterWalk(code) ==
    \A m, n \in 1..Len(code) :
        (IsTargetLoad(code[m]) /\ m < n) =>
            IsTargetLoad(code[n]) \/ code[n].op = "raise_group"

RootOverflow ==
    IF inp.kind = "dict" /\ cfg.crown.kind = "dict"
    THEN [k \in DOMAIN inp.val \ DeclaredKeys(cfg.crown) |-> inp.val[k]]
    ELSE EmptyFcn

TargetGetsCollected(id) ==
    /\ 0 \in DOMAIN frame.extra
    /\ CallsOf(id) = <<(<<id, frame.extra[0]>>)>>
    /\ cfg.crown.kind = "dict" =>
           \A k \in DOMAIN RootOverflow :
               k \in DOMAIN frame.extra[0].val /\ frame.extra[0].val[k] = RootOverflow[k]

TargetGetsEmpty(id) ==
    IF cfg.fields[id].is_required
    THEN /\ CallsOf(id) = <<(<<id, EmptyDict>>)>>
         /\ \A n \in 1..Len(Proc.code) :
                (IsTargetLoad(Proc.code[n]) /\ Proc.code[n].field_id = id) =>
                    Proc.code[n].loader_arg.src = "empty"
    ELSE CallsOf(id) = <<>> /\ ~Bound(id)

C15_ExtraTargetRouting ==
    (phase \in {"running", "done"} /\ cfg.extra_move.kind = "targets") =>
        /\ TargetsAfterWalk(Proc.code)
        /\ PassedTargets =>
               \A id \in TargetIds :
                   IF cfg.crown.extra_policy = "collect"
                   THEN TargetGetsCollected(id)
                   ELSE TargetGetsEmpty(id)

\* a root that collects has handed an undeclared key to the target's loader
C15_Witness ==
    /\ Returned
    /\ cfg.extra_move.kind = "targets"
    /\ cfg.crown.extra_policy = "collect"
    /\ DOMAIN RootOverflow # {}
    /\ \A id \in TargetIds : TargetGetsCollected(id) /\ Bound(id)

-----------------------------------------------------------------------------
(* C16: trail decoration depends only on the mode and the length of the    *)
(* path.  In NONE mode no error ever gets positional context; in FIRST and *)
(* ALL mode a path of length 0 attaches nothing, a path of length 1 that   *)
(* single key, a longer path the full sequence from the root; decoration   *)
(* never changes the kind or the payload of the error.                     *)

\* the paths of the nodes and leaves of a crown, the root's <<>> included
RECURSIVE CrownPaths(_, _)
CrownPaths(crown, path) ==
    {path} \cup
    (IF IsBranchCrown(crown)
     THEN UNION {CrownPaths(crown.subs[i], Append(path, ChildKey(crown, i))) :
                     i \in 1..Len(crown.subs)}
     ELSE {})

\* error expressions the generator decorates, each with the object it
\* evaluates to undecorated
DecoratedExprs ==
    <<ErrorExpr("TypeLoadError", "dict"), ErrorExpr("NoRequiredItemsError", 2),
      ErrorExpr("ExtraItemsError", 1), ErrorExpr("ExtraFieldsError", 0), CaughtExpr>>

Decorated(expr, path) ==
    EvalErrorExpr(WithTrail(cfg.debug_trail, expr, path), Error("LoadError", "f1"), {KeyV("w")})

Undecorated(expr) == EvalErrorExpr(expr, Error("LoadError", "f1"), {KeyV("w")})

DecorationIsAdditive(expr, path) ==
    /\ Decorated(expr, path).kind = Undecorated(expr).kind
    /\ Decorated(expr, path).payload = Undecorated(expr).payload
    /\ Decorated(expr, path).trail = IF cfg.debug_trail = "NONE" THEN <<>> ELSE path
    /\ WithTrail(cfg.debug_trail, expr, path).wrap =
           CASE cfg.debug_trail = "NONE" \/ Len(path) = 0 -> "none"
             [] cfg.debug_trail # "NONE" /\ Len(path) = 1 -> "append_trail"
             [] OTHER -> "extend_trail"

C16_TrailDecoration ==
    phase \in {"running", "done"} =>
        /\ Done => \A path \in CrownPaths(cfg.crown, <<>>) : \A n \in 1..Len(DecoratedExprs) :
               DecorationIsAdditive(DecoratedExprs[n], path)
        /\ cfg.debug_trail = "NONE" =>
               /\ frame.exc.trail = <<>>
               /\ frame.errors = <<>>
        /\ (cfg.debug_trail # "NONE" /\ Raised) =>
               \A n \in 1..Len(Reported) : Reported[n].trail \in CrownPaths(cfg.crown, <<>>)

\* a FIRST-mode failure two levels below the root carries both elements
C16_Witness ==
    /\ Raised
    /\ cfg.debug_trail = "FIRST"
    /\ Len(frame.exc.trail) = 2
    /\ frame.exc.kind = "LoadError"

-----------------------------------------------------------------------------
(* C17: in FIRST mode the first error aborts the extraction and is raised  *)
(* decorated with the full path from the root to the failure point: a      *)
(* loader failure of the field at path p carries p; an extra-fields or     *)
(* length error of the container at path p carries p; a missing required   *)
(* key or index carries the path of the container it is missing from, the  *)
(* key (or the required length) being the payload.                         *)

\* the crown at a path of the tree
RECURSIVE CrownAt(_, _)
CrownAt(crown, path) ==
    IF path = <<>> THEN crown
    ELSE CrownAt(crown.subs[CHOOSE i \in 1..Len(crown.subs) : ChildKey(crown, i) = path[1]],
                 Tail(path))

\* the value the invocation has read for the node at path
NodeValue(path) == frame.data[SlotOf(path)]

LocatesContainer(e, kind) ==
    /\ e.trail \in CrownPaths(cfg.crown, <<>>)
    /\ CrownAt(cfg.crown, e.trail).kind = kind
    /\ SlotOf(e.trail) \in DOMAIN frame.data

LocatesFailure(e) ==
    CASE e.kind = "LoadError" ->
            /\ e.trail = PathOf(e.payload)
            /\ frame.calls[Len(frame.calls)] = <<e.payload, BadRaw>>
      [] e.kind = "ExtraFieldsError" ->
            /\ LocatesContainer(e, "dict")
            /\ CrownAt(cfg.crown, e.trail).extra_policy = "forbid"
            /\ PySet(NodeValue(e.trail)).ok
            /\ e.payload = PySet(NodeValue(e.trail)).val \ DeclaredKeys(CrownAt(cfg.crown, e.trail))
            /\ e.payload # {}
      [] e.kind = "ExtraItemsError" ->
            /\ LocatesContainer(e, "list")
            /\ CrownAt(cfg.crown, e.trail).extra_policy = "forbid"
            /\ e.payload = Len(CrownAt(cfg.crown, e.trail).subs)
            /\ Len(NodeValue(e.trail).val) > e.payload
      [] e.kind = "NoRequiredItemsError" ->
            /\ LocatesContainer(e, "list")
            /\ e.payload = Len(CrownAt(cfg.crown, e.trail).subs)
            /\ Len(NodeValue(e.trail).val) < e.payload
      [] e.kind = "NoRequiredFieldsError" ->
            /\ LocatesContainer(e, "dict")
            /\ Len(e.payload) = 1
            /\ KeyV(e.payload[1]) \in DeclaredKeys(CrownAt(cfg.crown, e.trail))
            /\ KeyV(e.payload[1]) \notin DOMAIN NodeValue(e.trail).val
      [] OTHER -> TRUE

C17_FirstModeCarriesPath ==
    (Raised /\ cfg.debug_trail = "FIRST") =>
        /\ ~IsGroup(frame.exc)
        /\ frame.errors = <<>>
        /\ LocatesFailure(frame.exc)

\* a key missing from a nested mapping: the error carries the mapping's path
C17_Witness ==
    /\ Raised
    /\ cfg.debug_trail = "FIRST"
    /\ frame.exc.kind = "NoRequiredFieldsError"
    /\ Len(frame.exc.trail) = 1
    /\ LocatesFailure(frame.exc)

-----------------------------------------------------------------------------
(* C18: in every mode and for every input, if the procedure returns        *)
(* normally then every required field a FieldCrown refers to, at any depth *)
(* and in dict or list nodes, has been assigned the value its loader       *)
(* returned; in ALL mode the error list is not empty at the final check    *)
(* whenever such a field has been left unassigned.                         *)
RequiredCrownFields == {id \in FieldsOf(cfg.crown) : cfg.fields[id].is_required}

Assigned(id) ==
    /\ id \in DOMAIN frame.fields
    /\ frame.fields[id].kind = "loaded"
    /\ frame.fields[id].val.by = id

\* the invocation is at, or has raised from, the final "if errors:"
AtFinalCheck ==
    /\ phase \in {"running", "done"}
    /\ cfg.debug_trail = "ALL"
    /\ frame.pc = Len(Proc.code)

C18_RequiredFieldsResolve ==
    /\ Returned => \A id \in RequiredCrownFields : Assigned(id)
    /\ (AtFinalCheck /\ \E id \in RequiredCrownFields : ~Assigned(id)) =>
           frame.errors # <<>>

\* ALL mode, a list one item short: the read of the missing item passes
\* silently and the length check fills the error list
C18_Witness ==
    /\ AtFinalCheck
    /\ cfg.crown.kind = "list"
    /\ \E id \in RequiredCrownFields : id \notin DOMAIN frame.raw
    /\ Len(frame.errors) = 1
    /\ frame.errors[1].kind = "NoRequiredItemsError"

-----------------------------------------------------------------------------
(* Shape introspection: the field lists derived from a model definition.   *)
(* A TypedDict class is the sequence of its class statements, bases first: *)
(* each with its total flag and the keys it annotates, in order.           *)

\* bases of a generated TypedDict, the class itself included
MaxBases == 3
\* attributes a generated dataclass declares itself
MaxAttrs == 2

Item(id, type) == [id |-> id, type |-> type]

\* class Foo(TypedDict, total=True) / class Bar(TypedDict, total=False)
TdFoo == <<[total |-> TRUE, keys |-> <<Item("a", "int"), Item("b", "str"), Item("c", "bool")>>]>>
TdBar == <<[total |-> FALSE, keys |-> <<Item("a", "int"), Item("b", "str"), Item("c", "bool")>>]>>

ParentNotTotal == <<[total |-> FALSE, keys |-> <<Item("x", "int")>>]>>
\* a ChildTotal declared total=False by mistake
ChildTotal_NotTotal == Append(ParentNotTotal, [total |-> FALSE, keys |-> <<Item("y", "str")>>])
ChildTotal == Append(ParentNotTotal, [total |-> TRUE, keys |-> <<Item("y", "str")>>])
GrandChildNotTotal == Append(ChildTotal, [total |-> FALSE, keys |-> <<Item("z", "str")>>])

\* the chains of classes like these three, with every choice of total flags
LevelKeys == <<Item("x", "int"), Item("y", "str"), Item("z", "str"), Item("w", "int")>>
TypedDictChains ==
    UNION {{[i \in 1..n |-> [total |-> t[i], keys |-> <<LevelKeys[i]>>]] : t \in [1..n -> BOOLEAN]} :
              n \in 1..MaxBases}
TypedDicts == {TdFoo, TdBar, ParentNotTotal, ChildTotal, GrandChildNotTotal} \cup TypedDictChains

\* what Python records on the class: __annotations__ (bases first),
\* __total__, and on 3.9+ __required_keys__
RECURSIVE Annotations(_)
Annotations(cls) ==
    IF cls = <<>> THEN <<>> ELSE cls[1].keys \o Annotations(Tail(cls))
Total(cls) == cls[Len(cls)].total
RequiredKeys(cls) ==
    UNION {{cls[i].keys[j].id : j \in 1..Len(cls[i].keys)} :
              i \in {k \in 1..Len(cls) : cls[k].total}}

\* InputField(...) and OutputField(...) of a TypedDict key
InputField(type, id, is_required) ==
    [type |-> type, id |-> id, default |-> "NoDefault", is_required |-> is_required,
     param_kind |-> "KW_ONLY", param_name |-> id]
OutputField(type, id, access_error) ==
    [type |-> type, id |-> id, default |-> "NoDefault",
     accessor |-> [key |-> id, access_error |-> access_error]]

\* get_typed_dict_shape: a field per annotated key; a key is required when
\* it is among __required_keys__, and before 3.9 when the class is total
IsRequiredKey(cls, id, has_py_39) ==
    IF has_py_39 THEN id \in RequiredKeys(cls) ELSE Total(cls)
GetTypedDictShape(cls, has_py_39) ==
    [ input |-> [i \in 1..Len(Annotations(cls)) |->
                    InputField(Annotations(cls)[i].type, Annotations(cls)[i].id,
                               IsRequiredKey(cls, Annotations(cls)[i].id, has_py_39))],
      output |-> [i \in 1..Len(Annotations(cls)) |->
                    OutputField(Annotations(cls)[i].type, Annotations(cls)[i].id,
                                IF IsRequiredKey(cls, Annotations(cls)[i].id, has_py_39)
                                THEN "None" ELSE "KeyError")] ]

\* the shapes test_total, test_non_total and test_inheritance_* expect
NegateIfNotPy39(value, has_py_39) == IF has_py_39 THEN value ELSE ~value
ExpectedShape(cls, has_py_39) ==
    CASE cls = TdFoo ->
            [input |-> <<InputField("int", "a", TRUE), InputField("str", "b", TRUE),
                         InputField("bool", "c", TRUE)>>,
             output |-> <<OutputField("int", "a", "None"), OutputField("str", "b", "None"),
                          OutputField("bool", "c", "None")>>]
      [] cls = TdBar ->
            [input |-> <<InputField("int", "a", FALSE), InputField("str", "b", FALSE),
                         InputField("bool", "c", FALSE)>>,
             output |-> <<OutputField("int", "a", "KeyError"), OutputField("str", "b", "KeyError"),
                          OutputField("bool", "c", "KeyError")>>]
      [] cls = ParentNotTotal ->
            [input |-> <<InputField("int", "x", FALSE)>>,
             output |-> <<OutputField("int", "x", "KeyError")>>]
      [] cls = ChildTotal ->
            [input |-> <<InputField("int", "x", NegateIfNotPy39(FALSE, has_py_39)),
                         InputField("str", "y", TRUE)>>,
             output |-> <<OutputField("int", "x", IF has_py_39 THEN "KeyError" ELSE "None"),
                          OutputField("str", "y", "None")>>]
      [] cls = GrandChildNotTotal ->
            [input |-> <<InputField("int", "x", FALSE),
                         InputField("str", "y", NegateIfNotPy39(TRUE, has_py_39)),
                         InputField("str", "z", FALSE)>>,
             output |-> <<OutputField("int", "x", "KeyError"),
                          OutputField("str", "y", IF has_py_39 THEN "None" ELSE "KeyError"),
                          OutputField("str", "z", "KeyError")>>]
TestedTypedDicts == {TdFoo, TdBar, ParentNotTotal, ChildTotal, GrandChildNotTotal}

(* A dataclass is the sequence of its class bodies, bases first: each the  *)
(* attributes it annotates, in order.  kind tells a stored field from an   *)
(* InitVar pseudo-field and a ClassVar attribute.                          *)
NoDefault == [kind |-> "NoDefault", value |-> ""]
DefaultValue(v) == [kind |-> "DefaultValue", value |-> v]
DefaultFactory(f) == [kind |-> "DefaultFactory", value |-> f]

Attr(name, type, kind, init, default, metadata) ==
    [name |-> name, type |-> type, kind |-> kind, init |-> init, default |-> default,
     metadata |-> metadata]

\* a Foo whose f is left in the constructor (init=False forgotten)
DcFoo_InitF ==
    << <<Attr("a", "int", "field", TRUE, NoDefault, ""),
         Attr("b", "InitVar[int]", "InitVar", TRUE, NoDefault, ""),
         Attr("c", "InitVar[int]", "InitVar", TRUE, DefaultValue("1"), ""),
         Attr("d", "str", "field", TRUE, DefaultValue("text"), ""),
         Attr("e", "list", "field", TRUE, DefaultFactory("list"), ""),
         Attr("f", "int", "field", TRUE, DefaultValue("3"), ""),
         Attr("g", "int", "ClassVar", FALSE, NoDefault, ""),
         Attr("h", "int", "ClassVar", FALSE, DefaultValue("1"), ""),
         Attr("i", "int", "field", TRUE, DefaultValue("4"), "meta")>> >>

\* the dataclass Foo of the tests
DcFoo ==
    << <<Attr("a", "int", "field", TRUE, NoDefault, ""),
         Attr("b", "InitVar[int]", "InitVar", TRUE, NoDefault, ""),
         Attr("c", "InitVar[int]", "InitVar", TRUE, DefaultValue("1"), ""),
         Attr("d", "str", "field", TRUE, DefaultValue("text"), ""),
         Attr("e", "list", "field", TRUE, DefaultFactory("list"), ""),
         Attr("f", "int", "field", FALSE, DefaultValue("3"), ""),
         Attr("g", "int", "ClassVar", FALSE, NoDefault, ""),
         Attr("h", "int", "ClassVar", FALSE, DefaultValue("1"), ""),
         Attr("i", "int", "field", TRUE, DefaultValue("4"), "meta")>> >>

\* the dataclasses Bar and ChildBar(Bar) of the tests
DcBar == << <<Attr("a", "int", "field", TRUE, NoDefault, "")>> >>
ChildBar == Append(DcBar, <<Attr("b", "int", "field", TRUE, NoDefault, "")>>)

\* the attributes of a class and its bases, bases first
RECURSIVE Flatten(_)
Flatten(cls) == IF cls = <<>> THEN <<>> ELSE cls[1] \o Flatten(Tail(cls))

IsInitParam(attr) == attr.kind # "ClassVar" /\ attr.init
IsStored(attr) == attr.kind = "field"

\* @dataclass rejects a parameter without default after one with a default
Accepted(cls) ==
    \A i, j \in 1..Len(Flatten(cls)) :
        (i < j /\ IsInitParam(Flatten(cls)[i]) /\ IsInitParam(Flatten(cls)[j])
               /\ Flatten(cls)[i].default # NoDefault) =>
            Flatten(cls)[j].default # NoDefault

\* the ways to declare one attribute
AttrsNamed(name) ==
    {Attr(name, "int", "field", TRUE, NoDefault, ""),
     Attr(name, "int", "field", TRUE, DefaultValue("1"), ""),
     Attr(name, "list", "field", TRUE, DefaultFactory("list"), ""),
     Attr(name, "int", "field", FALSE, DefaultValue("3"), ""),
     Attr(name, "InitVar[int]", "InitVar", TRUE, NoDefault, ""),
     Attr(name, "int", "ClassVar", FALSE, DefaultValue("1"), "")}

AttrNames == <<"a", "b", "c", "d">>
\* class bodies of n attributes named from AttrNames[from + 1] on
Bodies(from, n) ==
    {b \in [1..n -> UNION {AttrsNamed(AttrNames[from + i]) : i \in 1..n}] :
        \A i \in 1..n : b[i].name = AttrNames[from + i]}

\* a base of one attribute and a child of up to MaxAttrs attributes
Dataclasses ==
    {DcFoo, DcBar, ChildBar} \cup
    {cls \in UNION {{<<p, c>> : p \in Bodies(0, 1), c \in Bodies(1, n)} : n \in 0..MaxAttrs} :
        Accepted(cls)}

\* InputFieldRM(...) and OutputFieldRM(...)
InputFieldRM(type, name, default, is_required, metadata) ==
    [type |-> type, name |-> name, default |-> default, is_required |-> is_required,
     metadata |-> metadata, param_kind |-> "POS_OR_KW"]
OutputFieldRM(type, name, default, is_required, metadata) ==
    [type |-> type, name |-> name, default |-> default, is_required |-> is_required,
     metadata |-> metadata, access_kind |-> "ATTR"]

\* the field of a constructor parameter and of a stored attribute
InputFieldOf(attr) ==
    InputFieldRM(attr.type, attr.name, attr.default, attr.default = NoDefault, attr.metadata)
OutputFieldOf(attr) ==
    OutputFieldRM(attr.type, attr.name, attr.default, TRUE, attr.metadata)

\* DataclassFigureProvider._get_input_figure / _get_output_figure
RECURSIVE MapAttrs(_, _)
MapAttrs(attrs, as_input) ==
    IF attrs = <<>> THEN <<>>
    ELSE <<IF as_input THEN InputFieldOf(attrs[1]) ELSE OutputFieldOf(attrs[1])>>
         \o MapAttrs(Tail(attrs), as_input)
GetInputFigure(cls) == [fields |-> MapAttrs(SelectSeq(Flatten(cls), IsInitParam), TRUE)]
GetOutputFigure(cls) == [fields |-> MapAttrs(SelectSeq(Flatten(cls), IsStored), FALSE)]

\* the figures test_input, test_output and test_inheritance expect
ExpectedInputFigure(cls) ==
    IF cls = DcFoo
    THEN [fields |-> <<InputFieldRM("int", "a", NoDefault, TRUE, ""),
                       InputFieldRM("InitVar[int]", "b", NoDefault, TRUE, ""),
                       InputFieldRM("InitVar[int]", "c", DefaultValue("1"), FALSE, ""),
                       InputFieldRM("str", "d", DefaultValue("text"), FALSE, ""),
                       InputFieldRM("list", "e", DefaultFactory("list"), FALSE, ""),
                       InputFieldRM("int", "i", DefaultValue("4"), FALSE, "meta")>>]
    ELSE [fields |-> <<InputFieldRM("int", "a", NoDefault, TRUE, ""),
                       InputFieldRM("int", "b", NoDefault, TRUE, "")>>]
ExpectedOutputFigure(cls) ==
    IF cls = DcFoo
    THEN [fields |-> <<OutputFieldRM("int", "a", NoDefault, TRUE, ""),
                       OutputFieldRM("str", "d", DefaultValue("text"), TRUE, ""),
                       OutputFieldRM("list", "e", DefaultFactory("list"), TRUE, ""),
                       OutputFieldRM("int", "f", DefaultValue("3"), TRUE, ""),
                       OutputFieldRM("int", "i", DefaultValue("4"), TRUE, "meta")>>]
    ELSE [fields |-> <<OutputFieldRM("int", "a", NoDefault, TRUE, ""),
                       OutputFieldRM("int", "b", NoDefault, TRUE, "")>>]
TestedDataclasses == {DcFoo, ChildBar}

(* The introspection of one model definition.  cfg is the interpreter      *)
(* (HAS_PY_39), inp the class, frame the shape or figure obtained.         *)
NoShape == [input |-> <<>>, output |-> <<>>]

InitShape ==
    /\ cfg \in [has_py_39 : BOOLEAN]
    /\ inp \in [of : {"typed_dict"}, cls : TypedDicts]
              \cup [of : {"dataclass"}, cls : Dataclasses]
    /\ inp.of = "dataclass" => cfg.has_py_39
    /\ frame = NoShape
    /\ phase = "idle"
    /\ gen = <<>>
    /\ procs = <<>>

\* get_typed_dict_shape(cls)
CallGetTypedDictShape ==
    /\ phase = "idle"
    /\ inp.of = "typed_dict"
    /\ frame' = GetTypedDictShape(inp.cls, cfg.has_py_39)
    /\ phase' = "shape"
    /\ UNCHANGED <<cfg, inp, gen, procs>>

\* DataclassFigureProvider()._get_input_figure(cls)
CallGetInputFigure ==
    /\ phase = "idle"
    /\ inp.of = "dataclass"
    /\ frame' = GetInputFigure(inp.cls)
    /\ phase' = "input_figure"
    /\ UNCHANGED <<cfg, inp, gen, procs>>

\* DataclassFigureProvider()._get_output_figure(cls)
CallGetOutputFigure ==
    /\ phase = "idle"
    /\ inp.of = "dataclass"
    /\ frame' = GetOutputFigure(inp.cls)
    /\ phase' = "output_figure"
    /\ UNCHANGED <<cfg, inp, gen, procs>>

NextShape == CallGetTypedDictShape \/ CallGetInputFigure \/ CallGetOutputFigure
SpecShape == InitShape /\ [][NextShape]_vars

-----------------------------------------------------------------------------
(* C19: get_typed_dict_shape yields one keyword-only input field and one   *)
(* output field per annotated key, in declaration order; is_required of a  *)
(* field is the totality of the TypedDict class that declares its key      *)
(* (across an inheritance chain on Python 3.9+); the output accessor's     *)
(* access_error is absent exactly when the field is required and KeyError  *)
(* otherwise.  The shapes the tests expect are these shapes.               *)
DeclaringClass(cls, id) ==
    cls[CHOOSE i \in 1..Len(cls) : \E j \in 1..Len(cls[i].keys) : cls[i].keys[j].id = id]

FieldPerKey(shape, cls, i) ==
    /\ shape.input[i].id = Annotations(cls)[i].id
    /\ shape.output[i].id = Annotations(cls)[i].id
    /\ shape.input[i].param_kind = "KW_ONLY"
    /\ (cfg.has_py_39 \/ Len(cls) = 1) =>
           shape.input[i].is_required = DeclaringClass(cls, shape.input[i].id).total
    /\ shape.output[i].accessor.access_error =
           IF shape.input[i].is_required THEN "None" ELSE "KeyError"

-----------------------------------------------------------------------------
(* C20: the input figure of a dataclass lists exactly the constructor      *)
(* parameters in declaration order, the bases' first (InitVar fields       *)
(* included, init=False fields and ClassVar attributes excluded), each     *)
(* required iff it has no default and no default factory; the output       *)
(* figure lists exactly the stored fields (init=False included, InitVar    *)
(* and ClassVar excluded), every one required.  The figures the tests      *)
(* expect are these figures.                                               *)
PositionOf(cls, name) ==
    CHOOSE k \in 1..Len(Flatten(cls)) : Flatten(cls)[k].name = name

Listed(figure, name) == \E n \in 1..Len(figure.fields) : figure.fields[n].name = name

InDeclarationOrder(figure, cls) ==
    \A m, n \in 1..Len(figure.fields) :
        m < n => PositionOf(cls, figure.fields[m].name) < PositionOf(cls, figure.fields[n].name)

InputFigureRule(figure, cls) ==
    /\ \A k \in 1..Len(Flatten(cls)) :
           Listed(figure, Flatten(cls)[k].name) <=>
               (Flatten(cls)[k].kind \in {"field", "InitVar"} /\ Flatten(cls)[k].init)
    /\ InDeclarationOrder(figure, cls)
    /\ \A n \in 1..Len(figure.fields) :
           figure.fields[n].is_required <=>
               Flatten(cls)[PositionOf(cls, figure.fields[n].name)].default.kind = "NoDefault"

OutputFigureRule(figure, cls) ==
    /\ \A k \in 1..Len(Flatten(cls)) :
           Listed(figure, Flatten(cls)[k].name) <=> Flatten(cls)[k].kind = "field"
    /\ InDeclarationOrder(figure, cls)
    /\ \A n \in 1..Len(figure.fields) : figure.fields[n].is_required

-----------------------------------------------------------------------------
(* C21: at a dict node the extra-data step precedes the processing of the  *)
(* node's declared children: in NONE and FIRST mode an input with an       *)
(* undeclared key at a Forbid node and a failing child of that node (a     *)
(* missing required key or a failing loader) fails with ExtraFieldsError,  *)
(* not with the child's error.  Stated for the root node, which nothing    *)
(* precedes.                                                               *)
RootHasUndeclaredKey ==
    /\ cfg.crown.kind = "dict"
    /\ cfg.crown.extra_policy = "forbid"
    /\ inp.kind = "dict"
    /\ DOMAIN inp.val \ DeclaredKeys(cfg.crown) # {}

FailingRootChildren == {id \in FieldsOf(cfg.crown) : Len(PathOf(id)) = 1 /\ IsFailing(id)}

C21_ForbidBeforeChildren ==
    (Done /\ cfg.debug_trail \in {"NONE", "FIRST"} /\ RootHasUndeclaredKey
          /\ FailingRootChildren # {}) =>
        /\ Raised
        /\ frame.exc.kind = "ExtraFieldsError"
        /\ frame.exc.payload = DOMAIN inp.val \ DeclaredKeys(cfg.crown)

-----------------------------------------------------------------------------
(* C22: every dict node verifies that the value at its position is a       *)
(* mapping: for every dict crown (root or nested; without children, with   *)
(* NoneCrown children only, or with field and container children; under    *)
(* any extra policy) and every value at its position that is no mapping,   *)
(* the extraction fails with TypeLoadError(dict) carrying, per the mode,   *)
(* the path of that node.                                                  *)
DictNodePaths == {p \in CrownPaths(cfg.crown, <<>>) : CrownAt(cfg.crown, p).kind = "dict"}

HoldsNonMapping(path) ==
    /\ SlotOf(path) \in DOMAIN frame.data
    /\ ~IsMapping(frame.data[SlotOf(path)])

C22_DictNodeChecksMapping ==
    Done =>
        \A p \in DictNodePaths :
            HoldsNonMapping(p) =>
                /\ Raised
                /\ \E n \in 1..Len(Reported) :
                       Reported[n] = [kind |-> "TypeLoadError", payload |-> "dict",
                                      trail |-> TrailFor(p)]

-----------------------------------------------------------------------------
(* C23: within one compilation the wrong-container-type handler of a       *)
(* parent path P is planned at most once: the read of the first child of P *)
(* (in declared order) that emits a positional read carries it, P is then  *)
(* in checked_type_paths, and no later read from P carries it;             *)
(* checked_type_paths only grows, and holds exactly the parent paths for   *)
(* which a read has been emitted.                                          *)
Compiled == Len(procs) > 0 /\ gen.raised = ""

ReadsIn(code) == {i \in 1..Len(code) : code[i].op = "read"}

\* the read at i is the first of the code that reads from its parent
FirstReadOfParent(code, i) ==
    \A j \in ReadsIn(code) : j < i => code[j].parent # code[i].parent

\* the parent paths some read of the code reads from
ReadParents(code) ==
    {p \in DOMAIN gen.path_to_suffix \cup {<<>>} :
        \E i \in ReadsIn(code) : code[i].parent = SlotOf(p)}

\* the crown cut down to its first k children
Prefix(crown, k) ==
    IF crown.kind = "dict"
    THEN [crown EXCEPT !.keys = SubSeq(crown.keys, 1, k), !.subs = SubSeq(crown.subs, 1, k)]
    ELSE [crown EXCEPT !.subs = SubSeq(crown.subs, 1, k)]

\* checked_type_paths once the first k children of the root are generated
CheckedAfter(k) ==
    GenChildren(cfg, CreateState(cfg, gen), Prefix(cfg.crown, k), 1).checked_type_paths

C23_HandlerPlannedOnce ==
    Compiled =>
        /\ \A i \in ReadsIn(Proc.code) :
               Proc.code[i].has_bad_type <=> FirstReadOfParent(Proc.code, i)
        /\ gen.checked_type_paths = ReadParents(Proc.code)
        /\ phase = "idle" =>
               \A k \in 1..Len(cfg.crown.subs) :
                   /\ CheckedAfter(k - 1) \subseteq CheckedAfter(k)
                   /\ CheckedAfter(k) \subseteq gen.checked_type_paths

\* two children read from the root: only the first read carries the handler
C23_Witness ==
    /\ Compiled
    /\ \E i, j \in ReadsIn(Proc.code) :
           /\ i < j
           /\ Proc.code[i].parent = 0
           /\ Proc.code[j].parent = 0
           /\ Proc.code[i].has_bad_type
           /\ ~Proc.code[j].has_bad_type
    /\ <<>> \in gen.checked_type_paths

-----------------------------------------------------------------------------
(* C24: the overflow holder of a nested node is inserted into its parent's *)
(* holder, under the nested node's own key, only when the parent collects  *)
(* too: a nested node under a parent that forbids or ignores extra data,   *)
(* or a nested node that does not collect itself, adds no entry to the     *)
(* parent's holder.                                                        *)

\* the parent's holder has an entry at the position of the nested node
HasEntryInParent(path) ==
    /\ SlotOf(ParentOf(path)) \in DOMAIN frame.extra
    /\ IF path[Len(path)].t = "key"
       THEN /\ frame.extra[SlotOf(ParentOf(path))].kind = "dict"
            /\ KeyV(path[Len(path)].v) \in DOMAIN frame.extra[SlotOf(ParentOf(path))].val
       ELSE /\ frame.extra[SlotOf(ParentOf(path))].kind = "list"
            /\ frame.extra[SlotOf(ParentOf(path))].val[path[Len(path)].v + 1] # NoneV

C24_NestedHolderOnlyUnderCollect ==
    phase \in {"running", "done"} =>
        \A p \in NestedNodePaths(cfg.crown, <<>>) :
            HasEntryInParent(p) =>
                /\ CrownAt(cfg.crown, ParentOf(p)).extra_policy = "collect"
                /\ CrownAt(cfg.crown, p).extra_policy = "collect"

-----------------------------------------------------------------------------
(* C25: if a field id used by a FieldCrown, or listed in the extra         *)
(* targets, has no entry in field_loaders, the compilation itself fails    *)
(* and no procedure is produced; the omission never shows up as a failure  *)
(* of an invocation of a compiled procedure.                               *)
LoaderMissing ==
    \E id \in FieldsOf(cfg.crown) \cup TargetIds : id \notin DOMAIN cfg.field_loaders

C25_MissingLoaderFailsCompilation ==
    LoaderMissing =>
        /\ procs = <<>>
        /\ phase = "idle"
        /\ gen.raised \in {"", "KeyError"}
        /\ gen.builder # <<>> => gen.raised = "KeyError"

\* ---------------------------------------------------------------------
\* C26  The region opened by add_key restores path, parent_path and the
\* crown stack on every way out, also when the generation inside the
\* region fails: once a compilation has ended, with a procedure or with
\* an exception, the tracker is back at the root (path = (), the crown
\* stack holds only the root crown).
CompilationEnded == Len(procs) > 0 \/ gen.raised # ""

C26_AddKeyRestoresState ==
    CompilationEnded =>
        /\ gen.path = <<>>
        /\ gen.crown_stack = <<cfg.crown>>

\* ---------------------------------------------------------------------
\* C27  Being optional only excuses a missing key or index.  When the
\* position of an optional field is present and holds a value its loader
\* rejects, the extraction fails and the field is not bound; once the
\* loader has been called, its error is the one raised (NONE, FIRST) or
\* is appended to the collected errors (ALL), located at the path of the
\* field as the error of a required field is.
IsOptionalField(id) == id \in FieldsOf(cfg.crown) /\ ~cfg.fields[id].is_required
PresentAndRejected(id) == \E r \in RawAt(cfg.crown, inp, <<>>) : r[1] = id /\ r[3] = BadRaw
LoaderRejected(id) == \E n \in 1..Len(frame.calls) : frame.calls[n] = <<id, BadRaw>>
InCollected(e) == \E n \in 1..Len(frame.errors) : frame.errors[n] = e

C27_OptionalLoaderFailureSurfaces ==
    Done =>
        \A id \in {"f1", "f2"} :
            (IsOptionalField(id) /\ PresentAndRejected(id)) =>
                /\ Raised
                /\ ~Bound(id)
                /\ LoaderRejected(id) =>
                       IF cfg.debug_trail = "ALL"
                       THEN InCollected(LoadErrorOf(id))
                       ELSE frame.exc = LoadErrorOf(id)

\* {x: bad} for an optional f1 in ALL mode: the group holds the error of f1
C27_Witness ==
    /\ Raised
    /\ cfg.debug_trail = "ALL"
    /\ IsOptionalField("f1")
    /\ PresentAndRejected("f1")
    /\ LoaderRejected("f1")
    /\ frame.exc.kind = "LoadExceptionGroup"
    /\ frame.exc.payload = <<LoadErrorOf("f1")>>

\* ---------------------------------------------------------------------
\* C28  A NoneCrown child is a no-op.  No statement is emitted for its
\* position, so no invocation reads that position and no error is located
\* there, whatever the input holds or lacks at it; its key is among the
\* known keys of a parent that forbids or collects extra data, so it is
\* never reported as extra; and in a list crown the fields declared after
\* it are loaded from the index of their own declared position.
NoneCrownPaths == {p \in CrownPaths(cfg.crown, <<>>) : CrownAt(cfg.crown, p).kind = "none"}
LastOf(path) == path[Len(path)]
SameElem(a, b) == a.t = b.t /\ a.v = b.v
SamePath(p, q) == Len(p) = Len(q) /\ \A i \in 1..Len(p) : SameElem(p[i], q[i])
ReadsPosition(instr, path) ==
    /\ instr.op = "read"
    /\ SameElem(instr.el, LastOf(path))
    /\ instr.parent = SlotOf(ParentOf(path))
EmittedFor(path) ==
    \/ path \in DOMAIN gen.path_to_suffix
    \/ \E i \in 1..Len(Proc.code) : ReadsPosition(Proc.code[i], path)
ReadAt(path) ==
    \E n \in 1..Len(frame.reads) :
        /\ frame.reads[n][1] = SlotOf(ParentOf(path))
        /\ SameElem(frame.reads[n][2], LastOf(path))
ErrorLocatedAt(path) ==
    \/ \E n \in 1..Len(frame.errors) : SamePath(frame.errors[n].trail, path)
    \/ Raised /\ ~IsGroup(frame.exc) /\ SamePath(frame.exc.trail, path)
CountsAsKnown(path) ==
    CrownAt(cfg.crown, ParentOf(path)).extra_policy \in {"forbid", "collect"} =>
        KeyV(LastOf(path).v) \in Proc.known_keys[SlotOf(ParentOf(path))]
ReportedAsExtra(path) ==
    \/ \E n \in 1..Len(frame.errors) :
           /\ frame.errors[n].kind = "ExtraFieldsError"
           /\ KeyV(LastOf(path).v) \in frame.errors[n].payload
    \/ /\ Raised
       /\ frame.exc.kind = "ExtraFieldsError"
       /\ KeyV(LastOf(path).v) \in frame.exc.payload
IsDictChild(path) == CrownAt(cfg.crown, ParentOf(path)).kind = "dict"
\* the fields declared in a list crown after a NoneCrown
AfterNoneInList(path) ==
    /\ Len(path) > 0
    /\ CrownAt(cfg.crown, ParentOf(path)).kind = "list"
    /\ \E q \in NoneCrownPaths : ParentOf(q) = ParentOf(path) /\ LastOf(q).v < LastOf(path).v
KeepsDeclaredIndex ==
    \A r \in RawAt(cfg.crown, inp, <<>>) :
        (AfterNoneInList(r[2]) /\ Bound(r[1])) => ValueOf(r[1]) = Loaded(r[1], r[3])

C28_NoneCrownIsNoOp ==
    /\ Compiled =>
           \A p \in NoneCrownPaths :
               /\ ~EmittedFor(p)
               /\ IsDictChild(p) => CountsAsKnown(p)
    /\ (Compiled /\ phase \in {"running", "done"}) =>
           \A p \in NoneCrownPaths :
               /\ ~ReadAt(p)
               /\ ~ErrorLocatedAt(p)
               /\ IsDictChild(p) => ~ReportedAsExtra(p)
    /\ Returned => KeepsDeclaredIndex

\* crown [f1, None, f2] on a list whose middle item is a mapping: the
\* procedure returns with f2 loaded from index 2
C28_Witness ==
    /\ Returned
    /\ cfg.crown = CrownC("forbid")
    /\ inp.kind = "list" /\ Len(inp.val) = 3
    /\ inp.val[2] = EmptyDict
    /\ Bound("f2") /\ ValueOf("f2") = Loaded("f2", inp.val[3])

\* ---------------------------------------------------------------------
\* C30  An input list shorter than the declared child count of its list
\* crown makes the extraction fail with NoRequiredItemsError(declared
\* count), whatever the crowns at the missing positions are (required or
\* optional field, NoneCrown, nested container).  In ALL mode the reads of
\* the missing indices record nothing and the list node records exactly
\* one NoRequiredItemsError, however many items are missing.
ShortLists == {o \in WrongLength(cfg.crown, inp, <<>>) : o[4] < o[3]}
NoRequiredItemsOf(o) ==
    [kind |-> "NoRequiredItemsError", payload |-> o[3], trail |-> TrailFor(o[1])]
RecordedFor(o) == {n \in 1..Len(frame.errors) : frame.errors[n] = NoRequiredItemsOf(o)}
ShortListRule(o) ==
    /\ Raised
    /\ IF cfg.debug_trail = "ALL"
       THEN /\ Cardinality(RecordedFor(o)) = 1
            /\ Len(frame.errors) = 1
            /\ frame.exc.kind = "LoadExceptionGroup"
            /\ frame.exc.payload = frame.errors
       ELSE frame.exc = NoRequiredItemsOf(o)

C30_ShortListFailsOnce ==
    (Done /\ ValidButLength /\ WrongLength(cfg.crown, inp, <<>>) = ShortLists) =>
        \A o \in ShortLists : ShortListRule(o)

-----------------------------------------------------------------------------
(* The specializer cut_if (dataclass_factory/optimize.py).  A function is  *)
(* a body of statements: "return c" with c in 1..3, and "if test: body     *)
(* else: orelse", an elif being an orelse that holds one if.  A test is a  *)
(* name or its negation; the names are the closure variable a, the global  *)
(* g and the parameter x.  A body that runs to its end returns None.       *)

NoTest == [id |-> "", neg |-> FALSE]
ReturnStmt(c) == [kind |-> "return", value |-> IntV(c), test |-> NoTest, body |-> <<>>, orelse |-> <<>>]
If(test, body, orelse) ==
    [kind |-> "if", value |-> NoneV, test |-> test, body |-> body, orelse |-> orelse]
Name(id) == [id |-> id, neg |-> FALSE]
NotName(id) == [id |-> id, neg |-> TRUE]

\* exec of "______ = <test>" in a namespace: the value, or NameError
EvalTest(test, namespace) ==
    IF test.id \in DOMAIN namespace
    THEN Ok(namespace[test.id] # test.neg)
    ELSE Exc("NameError")

\* the try block of RewriteName.visit_If: the exception that leaves it, or
\* the value it returns (the statements that replace the node).  A true
\* test goes on to self.generic_visit(node.body); node.body is a list,
\* which has no _fields, so iter_fields raises AttributeError.
VisitIfTry(node, kwargs) ==
    LET res == EvalTest(node.test, kwargs)
    IN  IF ~res.ok THEN [raised |-> res.exc, ret |-> <<>>]
        ELSE IF ~res.val THEN [raised |-> "", ret |-> <<>>]
        ELSE [raised |-> "AttributeError", ret |-> <<>>]

RECURSIVE VisitBody(_, _)
RECURSIVE GenericVisit(_, _)

\* RewriteName.visit_If: "except Exception: self.generic_visit(node);
\* return node"
VisitIf(node, kwargs) ==
    IF VisitIfTry(node, kwargs).raised # ""
    THEN <<GenericVisit(node, kwargs)>>
    ELSE VisitIfTry(node, kwargs).ret

\* ast.NodeTransformer.visit of one statement: the statements it becomes
Visit(node, kwargs) ==
    IF node.kind = "if" THEN VisitIf(node, kwargs) ELSE <<GenericVisit(node, kwargs)>>

\* ast.NodeTransformer.generic_visit on a list field: a removed statement
\* (None) is left out, the others are put in place
VisitBody(body, kwargs) ==
    IF body = <<>> THEN <<>>
    ELSE Visit(Head(body), kwargs) \o VisitBody(Tail(body), kwargs)

\* ast.NodeTransformer.generic_visit of a statement
GenericVisit(node, kwargs) ==
    IF node.kind = "if"
    THEN [node EXCEPT !.body = VisitBody(node.body, kwargs),
                      !.orelse = VisitBody(node.orelse, kwargs)]
    ELSE node

\* compile() of a tree rejects a FunctionDef or an If whose body is empty
RECURSIVE HasEmptyBody(_)
HasEmptyBody(body) ==
    \/ body = <<>>
    \/ \E i \in 1..Len(body) :
           /\ body[i].kind = "if"
           /\ \/ HasEmptyBody(body[i].body)
              \/ body[i].orelse # <<>> /\ HasEmptyBody(body[i].orelse)

\* func.__code__.co_freevars: the names of the tests that are closure
\* variables
RECURSIVE NamesOf(_)
NamesOf(body) ==
    UNION {IF body[i].kind = "if"
           THEN {body[i].test.id} \cup NamesOf(body[i].body) \cup NamesOf(body[i].orelse)
           ELSE {} : i \in 1..Len(body)}
FreeVars(func) == NamesOf(func) \cap {"a"}

\* "known_vars = {k: v for k, v in locals.items() if k in freevars};
\* known_vars.update(globals)"
KnownVars(func, locals, globals) ==
    [k \in (DOMAIN locals \cap FreeVars(func)) \cup DOMAIN globals |->
        IF k \in DOMAIN globals THEN globals[k] ELSE locals[k]]

\* cut_if(locals, globals)(func): the function compiled from the
\* rewritten tree, or the exception of compile()
CutIf(func, locals, globals) ==
    LET new_tree == VisitBody(func, KnownVars(func, locals, globals))
    IN  IF HasEmptyBody(new_tree) THEN [raised |-> "ValueError", func |-> <<>>]
        ELSE [raised |-> "", func |-> new_tree]

\* the names a call sees: the parameter, the closure and the globals
CallNamespace(locals, globals, x) ==
    [k \in DOMAIN locals \cup DOMAIN globals \cup {"x"} |->
        IF k = "x" THEN x ELSE IF k \in DOMAIN globals THEN globals[k] ELSE locals[k]]

\* running a body: the value returned
RECURSIVE Run(_, _)
RunStatement(stmt, namespace) ==
    IF stmt.kind = "return" THEN stmt.value
    ELSE IF EvalTest(stmt.test, namespace).val THEN Run(stmt.body, namespace)
    ELSE Run(stmt.orelse, namespace)
Run(body, namespace) ==
    IF body = <<>> THEN NoneV
    ELSE IF RunStatement(Head(body), namespace) # NoneV
         THEN RunStatement(Head(body), namespace)
         ELSE Run(Tail(body), namespace)

\* the functions decorated: if/else, if/elif/else, a nested if, an if
\* without else, each followed or not by a final return
Tests == {Name("a"), NotName("a"), Name("g"), Name("x"), NotName("x")}
IfElse(t) == <<If(t, <<ReturnStmt(1)>>, <<ReturnStmt(2)>>), ReturnStmt(3)>>
IfElif(t, u) == <<If(t, <<ReturnStmt(1)>>, <<If(u, <<ReturnStmt(2)>>, <<ReturnStmt(3)>>)>>)>>
Nested(t, u) == <<If(t, <<If(u, <<ReturnStmt(1)>>, <<>>)>>, <<ReturnStmt(2)>>), ReturnStmt(3)>>
IfOnly(t) == <<If(t, <<ReturnStmt(1)>>, <<>>), ReturnStmt(3)>>
Functions ==
    {IfElse(t) : t \in Tests} \cup {IfOnly(t) : t \in Tests}
    \cup {IfElif(t, u) : t \in Tests, u \in Tests}
    \cup {Nested(t, u) : t \in Tests, u \in Tests}

InitCutIf ==
    /\ cfg \in [func : Functions, locals : [{"a"} -> BOOLEAN], globals : [{"g"} -> BOOLEAN]]
    /\ gen = [raised |-> ""]
    /\ procs = <<>>
    /\ phase = "idle"
    /\ inp = FALSE
    /\ frame = [original |-> NoneV, specialized |-> NoneV]

\* func = cut_if(locals, globals)(func)
Decorate ==
    /\ phase = "idle"
    /\ LET res == CutIf(cfg.func, cfg.locals, cfg.globals)
       IN  /\ gen' = [raised |-> res.raised]
           /\ procs' = IF res.raised = "" THEN <<res.func>> ELSE procs
           /\ phase' = IF res.raised = "" THEN "decorated" ELSE "failed"
    /\ UNCHANGED <<cfg, inp, frame>>

\* the specialized function and the function it was made from are called
\* with the same argument
CallBoth ==
    /\ phase = "decorated"
    /\ \E x \in BOOLEAN :
           /\ inp' = x
           /\ frame' = [original |-> Run(cfg.func, CallNamespace(cfg.locals, cfg.globals, x)),
                        specialized |-> Run(procs[1], CallNamespace(cfg.locals, cfg.globals, x))]
    /\ phase' = "called"
    /\ UNCHANGED <<cfg, gen, procs>>

NextCutIf == Decorate \/ CallBoth
SpecCutIf == InitCutIf /\ [][NextCutIf]_vars

\* ---------------------------------------------------------------------
\* C29  cut_if never changes behaviour: for every function and all values
\* of the known variables a specialized function is produced, and it
\* returns what the original returns on every argument; in particular the
\* else/elif branch of an if whose test is false ahead of time still runs.
C29_CutIfPreservesBehaviour ==
    /\ phase # "failed"
    /\ phase = "called" => frame.specialized = frame.original
====
